---- MODULE Spec2Model ----
(***************************************************************************)
(* A model of the Ralph iteration controller (snarktank/ralph):            *)
(*   - PRDService            backend/app/services/prd_service.py           *)
(*   - RalphOrchestrator     backend/app/services/ralph_orchestrator.py    *)
(*   - the /api/ralph routes backend/app/api/ralph_endpoints.py            *)
(*   - RalphRunner           backend/app/services/ralph_runner.py          *)
(*   - RalphEventLogger      backend/app/services/ralph_event_logger.py    *)
(*   - the standalone runner ralphython.py                                 *)
(*   - the archiver          ralph/archiver.py                             *)
(* The orchestrator and the runner are asyncio coroutines: the code        *)
(* between two awaits runs atomically, so every action below is one such   *)
(* stretch, named after the await at which the coroutine is suspended.     *)
(***************************************************************************)
EXTENDS Integers, Sequences, FiniteSets, TLC

\* ------------------------------------------------------------------ bounds
MaxStories == 2          \* stories in a story document
MaxPriority == 2         \* priorities are drawn from 1..MaxPriority
MaxTasks == 2            \* start requests accepted by the route (background tasks)
MaxIterArg == 2          \* max_iterations arguments are drawn from 1..MaxIterArg
MaxProjects == 2         \* projects known to the project manager
MaxResponses == 3        \* answers of the project routes kept per project
MaxLogCalls == 3         \* log_event calls in a behaviour
MaxClock == 2            \* datetime.now() is drawn from 1..MaxClock
MaxLines == 3            \* lines of an events file that was written before
MaxLimit == 2            \* limit arguments of get_events are drawn from 0..MaxLimit
MaxDays == 2             \* date.today() is drawn from 1..MaxDays
MaxNotes == 1            \* notes an agent appends to a fresh progress.txt
MaxUpdates == 3          \* calls of update_user_story
MaxArgv == 5             \* strings on the command line
MaxFolders == 2          \* archive folders under the archive root
MaxConns == 3            \* websockets accepted in a behaviour

\* settings.DEFAULT_MAX_ITERATIONS
DEFAULT_MAX_ITERATIONS == 10

\* RalphEventLogger.__init__(max_memory_events=500)
DEFAULT_MAX_MEMORY_EVENTS == 500

VARIABLES
    prd,                \* the story document on disk (prd.json)
    running,            \* RalphOrchestrator.running
    current_iteration,  \* RalphOrchestrator.current_iteration
    max_iterations,     \* RalphOrchestrator.max_iterations
    use_api,            \* RalphOrchestrator.use_api
    anthropic_client,   \* RalphOrchestrator.anthropic_client is not None
    task,               \* the background tasks running start_loop
    stop_requested,     \* history: stop_loop was called since the loops in progress began
    prd_written,        \* history: prd.json was written since the loops in progress began
    prd0,               \* history: the story document when the loops in progress began
    next_story_ret,     \* PRD API: the last answer of get_next_incomplete_story
    subagent_conversations, \* ConversationManager.subagent_conversations
    active_connections, \* ConnectionManager.active_connections
    connection_metadata,\* the keys of ConnectionManager.connection_metadata
    n_connections,      \* the websockets that were accepted so far
    broadcast_call,     \* the call of ConnectionManager.broadcast in progress
    prd_text,           \* prd.json: "dumped" when its text is what save_prd writes
    update_ret,         \* PRD API: the calls of update_user_story, and the last one
    running_processes,  \* RalphRunner.running_processes: the project ids it holds
    runner_task,        \* the asyncio task of _run_ralph_process, per project
    project_conversations, \* RalphRunner.project_conversations[p]["status"]
    ralph_status,       \* Project.ralph_status
    responses,          \* the answers of the project routes, per project
    binary_lookup,      \* what _find_claude_binary returned to the project's task
    project_files,      \* RalphEventLogger: the project id is in self.project_files
    project_events,     \* RalphEventLogger.project_events[project_id], the cache
    events_file,        \* the lines of the project's ralph_events.jsonl
    max_memory_events,  \* RalphEventLogger.max_memory_events
    clock,              \* datetime.now()
    log_ret,            \* event log API: the last call and its answer
    log_calls,          \* history: the log_event calls, in order
    init_at,            \* history: Len(log_calls) at the last initialize_project
    prd_file,           \* ralphython.py: script_dir/prd.json
    last_branch_file,   \* ralphython.py: script_dir/.last-branch
    progress_file,      \* ralphython.py: script_dir/progress.txt
    archive,            \* ralphython.py: the folders of script_dir/archive
    today,              \* date.today()
    last_op,            \* history: what the standalone runner did last
    main_call,          \* ralphython.py: the call of main in progress, or the last one
    argv,               \* ralphython.py: the command line after the script's name
    parsed_args                \* ralphython.py: what _parse_args made of it

orchVars == <<running, current_iteration, max_iterations, use_api, anthropic_client,
              task, stop_requested>>
prdVars == <<prd, prd_written, prd0, next_story_ret>>
putVars == <<prd_text, update_ret>>
convVars == <<subagent_conversations>>
wsVars == <<active_connections, connection_metadata, n_connections, broadcast_call>>
runnerVars == <<running_processes, runner_task, project_conversations, ralph_status,
                responses, binary_lookup>>
cliVars == <<argv, parsed_args>>
archVars == <<prd_file, last_branch_file, progress_file, archive, today, last_op, main_call,
              argv, parsed_args>>
logVars == <<project_files, project_events, events_file, max_memory_events, clock,
             log_ret, log_calls, init_at>>
vars == <<prd, running, current_iteration, max_iterations, use_api, anthropic_client,
          task, stop_requested, prd_written, prd0, next_story_ret, prd_text, update_ret,
          subagent_conversations,
          active_connections, connection_metadata, n_connections, broadcast_call,
          running_processes, runner_task, project_conversations, ralph_status, responses,
          binary_lookup, project_files, project_events, events_file, max_memory_events,
          clock, log_ret, log_calls, init_at, prd_file, last_branch_file, progress_file,
          archive, today, last_op, main_call, argv, parsed_args>>

\* ------------------------------------------------------------------ story document
UserStory(i, p, b) == [id |-> i, priority |-> p, passes |-> b]

\* prd.json: absent, unparsable, or a PRD with its userStories
PRD(status, stories) == [status |-> status, userStories |-> stories]

StoryIds == 1..MaxStories
Priorities == 1..MaxPriority

\* all story lists of length 0..MaxStories (ids need not be unique)
AnyStories ==
    UNION {[1..n -> {UserStory(i, p, b) : i \in StoryIds, p \in Priorities, b \in BOOLEAN}]
           : n \in 0..MaxStories}

\* story lists whose ids are 1..n in list order
KeyedStories ==
    {s \in AnyStories : \A k \in DOMAIN s : s[k].id = k}

\* of which those whose priorities are 1..n in some order
RankedStories ==
    {s \in KeyedStories : \A p \in DOMAIN s : \E k \in DOMAIN s : s[k].priority = p}

\* PRDService.get_prd raises when the file does not parse
get_prd_raises(d) == d.status = "malformed"

\* PRDService.get_prd: None (here <<>>) when the file does not exist
get_prd(d) == IF d.status = "ok" THEN <<d>> ELSE <<>>

\* a sort that puts a story before the stories of equal priority already placed
insert_by_priority_unstable(sorted, x) ==
    LET k == Cardinality({i \in DOMAIN sorted : sorted[i].priority < x.priority})
    IN  SubSeq(sorted, 1, k) \o <<x>> \o SubSeq(sorted, k + 1, Len(sorted))

\* list.sort(key=priority): stable, ascending
insert_by_priority(sorted, x) ==
    LET k == Cardinality({i \in DOMAIN sorted : sorted[i].priority <= x.priority})
    IN  SubSeq(sorted, 1, k) \o <<x>> \o SubSeq(sorted, k + 1, Len(sorted))

RECURSIVE sort_by_priority(_)
sort_by_priority(s) ==
    IF s = <<>> THEN <<>>
    ELSE insert_by_priority(sort_by_priority(SubSeq(s, 1, Len(s) - 1)), s[Len(s)])

\* PRDService.get_next_incomplete_story: <<>> is None, <<s>> the story
get_next_incomplete_story(d) ==
    IF get_prd(d) = <<>> THEN <<>>
    ELSE LET incomplete_stories == SelectSeq(d.userStories, LAMBDA s : ~s.passes)
         IN  IF incomplete_stories = <<>> THEN <<>>
             ELSE <<sort_by_priority(incomplete_stories)[1]>>

\* PRDService.all_stories_complete
all_stories_complete(d) ==
    IF get_prd(d) = <<>> \/ d.userStories = <<>> THEN FALSE
    ELSE \A i \in DOMAIN d.userStories : d.userStories[i].passes

\* a scan that does not look at the id
story_marked_any(d, id) ==
    \E i \in DOMAIN d.userStories : d.userStories[i].passes

\* the dispatcher's scan of the re-read document: some story has the id and passes
story_marked_complete(d, id) ==
    \E i \in DOMAIN d.userStories : d.userStories[i].id = id /\ d.userStories[i].passes

\* PRDService.update_user_story: the first story with the id gets the flag
\* a service that appends a record with the flag
update_user_story_doc_appending(d, id, passes) ==
    LET hits == {i \in DOMAIN d.userStories : d.userStories[i].id = id}
        first == CHOOSE i \in hits : \A j \in hits : i <= j
    IN  IF hits = {} THEN d
        ELSE [d EXCEPT !.userStories =
                  Append(@, [d.userStories[first] EXCEPT !.passes = passes])]

update_user_story_doc(d, id, passes) ==
    LET hits == {i \in DOMAIN d.userStories : d.userStories[i].id = id}
        first == CHOOSE i \in hits : \A j \in hits : i <= j
    IN  IF hits = {} THEN d
        ELSE [d EXCEPT !.userStories[first].passes = passes]

\* ------------------------------------------------------------------ orchestrator
\* A background task is suspended at one of these awaits of start_loop and of the
\* dispatchers. The awaits of a broadcast that is followed by no read or write of
\* the orchestrator's fields or of prd.json (lines 89, 92, 134, 173, 179, 197, 240,
\* 246) are folded into the stretch before them.
Tasks == 1..MaxTasks

\* the awaits of run_iteration_with_api / run_iteration_with_cli
DispatchPcs == {"agent", "reread"}

\* the awaits of start_loop between lines 35 and 119: the loop body is in progress
BodyPcs == DispatchPcs \cup {"get_next", "iter_start", "returned", "all_complete",
                             "bc_complete", "sleep", "stopped_bcast", "exc_bcast"}

IdleTask ==
    [pc |-> "idle",            \* the await the coroutine is suspended at
     arg_max |-> 0,            \* start_loop(max_iterations=...)
     arg_cli |-> FALSE,        \* start_loop(use_cli=...)
     range_end |-> 0,          \* the end of range(1, self.max_iterations + 1)
     iteration |-> 0,          \* the loop variable
     story |-> 0,              \* next_story.id
     strategy |-> "none",      \* which run_iteration_with_* is running
     output_sentinel |-> FALSE,\* "<promise>COMPLETE</promise>" in output
     returncode |-> 0,         \* process.returncode of the CLI agent
     detected |-> FALSE,       \* the dispatch reached its completion detection
     output |-> FALSE,         \* the agent's output was read (lines 151-155, 213)
     recorded |-> FALSE,       \* add_subagent_message(iteration, story.id, "assistant", output)
     success |-> FALSE,        \* the local success
     \* history of what this run has pushed to the sink and the conversation
     n_dispatch |-> 0,         \* calls of run_iteration_with_*
     n_iter_start |-> 0,       \* broadcast_iteration_start
     sent_start |-> <<0, 0>>,  \* the iteration and story id of the last one
     sent_complete |-> <<0, 0>>, \* those of the last broadcast_iteration_complete
     n_iter_complete |-> 0,    \* broadcast_iteration_complete
     errs |-> 0,               \* broadcast_error(..., iteration) of this iteration
     n_complete |-> 0,         \* broadcast_complete
     stopped_msg |-> FALSE,    \* "Ralph loop stopped by user"
     max_msg |-> FALSE,        \* "Reached max iterations ..."
     exc_msg |-> FALSE,        \* "Ralph orchestrator error: ..."
     rejected |-> FALSE,       \* "Ralph is already running"
     stop_seen |-> FALSE]      \* stop_loop was called while a dispatch was in flight

\* the coroutine is over: its locals are gone, what it pushed stays
Finished(rec) ==
    [rec EXCEPT !.pc = "done", !.iteration = 0, !.story = 0, !.strategy = "none",
                !.output_sentinel = FALSE, !.returncode = 0, !.detected = FALSE,
                !.output = FALSE, !.recorded = FALSE, !.errs = 0]

\* lines 109-119: the max-iterations message, then the finally block
AfterLoop(rec, cur, mx) ==
    [t |-> [Finished(rec) EXCEPT !.max_msg = (cur >= mx)],
     running |-> FALSE,
     cur |-> 0]

\* a for statement that runs one value past the range
LoopHead_past(rec, it, run, cur, mx) ==
    IF it > rec.range_end + 1 THEN AfterLoop(rec, cur, mx)
    ELSE IF ~run
         THEN [t |-> [rec EXCEPT !.pc = "stopped_bcast", !.stopped_msg = TRUE],
               running |-> run, cur |-> cur]
         ELSE [t |-> [rec EXCEPT !.pc = "get_next", !.iteration = it],
               running |-> run, cur |-> it]

\* lines 50-62: the for statement takes the next value of range, then checks running
LoopHead(rec, it, run, cur, mx) ==
    IF it > rec.range_end THEN AfterLoop(rec, cur, mx)
    ELSE IF ~run
         THEN [t |-> [rec EXCEPT !.pc = "stopped_bcast", !.stopped_msg = TRUE],
               running |-> run, cur |-> cur]
         ELSE [t |-> [rec EXCEPT !.pc = "get_next", !.iteration = it],
               running |-> run, cur |-> it]

Apply(t, r) ==
    /\ task' = [task EXCEPT ![t] = r.t]
    /\ running' = r.running
    /\ current_iteration' = r.cur

\* POST /api/ralph/start: 400 when running, else the loop is added as a background task
start_ralph(m, cli) ==
    /\ ~running
    /\ \E t \in Tasks :
          /\ task[t].pc = "idle"
          /\ \A u \in Tasks : u < t => task[u].pc # "idle"
          /\ task' = [task EXCEPT ![t] = [IdleTask EXCEPT !.pc = "scheduled",
                                                          !.arg_max = m,
                                                          !.arg_cli = cli]]
    /\ UNCHANGED <<running, current_iteration, max_iterations, use_api, anthropic_client,
                   stop_requested>>
    /\ UNCHANGED prdVars
    /\ UNCHANGED runnerVars
    /\ UNCHANGED putVars
    /\ UNCHANGED wsVars
    /\ UNCHANGED convVars
    /\ UNCHANGED archVars
    /\ UNCHANGED logVars

start_ralph_rejected ==
    /\ running
    /\ UNCHANGED vars

\* start_loop, lines 29-65: from the call to the first await
start_loop(t) ==
    /\ task[t].pc = "scheduled"
    /\ IF running
       THEN /\ task' = [task EXCEPT ![t] = [IdleTask EXCEPT !.pc = "done",
                                                            !.rejected = TRUE]]
            /\ UNCHANGED <<running, current_iteration, max_iterations, use_api,
                           stop_requested, prd_written, prd0>>
       ELSE LET mx == IF task[t].arg_max # 0 THEN task[t].arg_max
                      ELSE DEFAULT_MAX_ITERATIONS
                rec == [IdleTask EXCEPT !.range_end = mx]
                alone == \A u \in Tasks : task[u].pc \notin BodyPcs
            IN  /\ max_iterations' = mx
                /\ use_api' = IF task[t].arg_cli THEN FALSE ELSE use_api
                /\ Apply(t, LoopHead(rec, 1, TRUE, 0, mx))
                /\ stop_requested' = IF alone THEN FALSE ELSE stop_requested
                /\ prd_written' = IF alone THEN FALSE ELSE prd_written
                /\ prd0' = IF alone THEN prd ELSE prd0
    /\ UNCHANGED <<anthropic_client, prd, next_story_ret>>
    /\ UNCHANGED runnerVars
    /\ UNCHANGED putVars
    /\ UNCHANGED wsVars
    /\ UNCHANGED convVars
    /\ UNCHANGED archVars
    /\ UNCHANGED logVars

\* lines 65-79: get_next_incomplete_story returns
get_next(t) ==
    /\ task[t].pc = "get_next"
    /\ LET rec == task[t]
           next_story == get_next_incomplete_story(prd)
       IN  task' = [task EXCEPT ![t] =
                       IF get_prd_raises(prd)
                       THEN [rec EXCEPT !.pc = "exc_bcast", !.exc_msg = TRUE]
                       ELSE IF next_story = <<>>
                       THEN [rec EXCEPT !.pc = "bc_complete", !.story = 0,
                                        !.n_complete = @ + 1]
                       ELSE [rec EXCEPT !.pc = "iter_start",
                                        !.story = next_story[1].id,
                                        !.n_iter_start = @ + 1,
                                        !.sent_start = <<rec.iteration,
                                                         next_story[1].id>>]]
    /\ UNCHANGED <<running, current_iteration, max_iterations, use_api, anthropic_client,
                   stop_requested>>
    /\ UNCHANGED prdVars
    /\ UNCHANGED runnerVars
    /\ UNCHANGED putVars
    /\ UNCHANGED wsVars
    /\ UNCHANGED convVars
    /\ UNCHANGED archVars
    /\ UNCHANGED logVars

\* a dispatcher returns ok to line 84/86
Return(rec, ok) == [rec EXCEPT !.pc = "returned", !.success = ok]

\* a failure condition of a dispatcher: broadcast_error tagged with the iteration,
\* return False (lines 134-135, 178-180, 197-198, 245-247)
dispatch_error(rec) == Return([rec EXCEPT !.errs = @ + 1, !.detected = FALSE], FALSE)

\* the dispatcher's locals are gone when the loop goes on
Forget(rec) ==
    [rec EXCEPT !.strategy = "none", !.output_sentinel = FALSE, !.returncode = 0,
                !.detected = FALSE, !.output = FALSE, !.recorded = FALSE]

\* a loop that sends no error of its own after a failed dispatch
iteration_complete_silent(t) ==
    /\ task[t].pc = "returned"
    /\ task' = [task EXCEPT ![t] =
                   [Forget(task[t]) EXCEPT !.pc = "all_complete",
                                           !.n_iter_complete = @ + 1,
                                           !.sent_complete = <<task[t].iteration,
                                                               task[t].story>>]]
    /\ UNCHANGED <<running, current_iteration, max_iterations, use_api, anthropic_client,
                   stop_requested>>
    /\ UNCHANGED prdVars
    /\ UNCHANGED runnerVars
    /\ UNCHANGED putVars
    /\ UNCHANGED wsVars
    /\ UNCHANGED convVars
    /\ UNCHANGED archVars
    /\ UNCHANGED logVars

\* lines 88-98: broadcast_iteration_complete, and broadcast_error tagged with the
\* iteration if the dispatch failed; all_stories_complete is awaited
iteration_complete(t) ==
    /\ task[t].pc = "returned"
    /\ task' = [task EXCEPT ![t] =
                   [Forget(task[t]) EXCEPT !.pc = "all_complete",
                                           !.n_iter_complete = @ + 1,
                                           !.sent_complete = <<task[t].iteration,
                                                               task[t].story>>,
                                           !.errs = IF task[t].success THEN @ ELSE @ + 1]]
    /\ UNCHANGED <<running, current_iteration, max_iterations, use_api, anthropic_client,
                   stop_requested>>
    /\ UNCHANGED prdVars
    /\ UNCHANGED runnerVars
    /\ UNCHANGED putVars
    /\ UNCHANGED wsVars
    /\ UNCHANGED convVars
    /\ UNCHANGED archVars
    /\ UNCHANGED logVars

\* no conversation of the iteration yet
NoConversation == [story_id |-> 0, runs |-> {}]

\* ConversationManager.add_subagent_message, conversation_manager.py lines
\* 49-87, called by the run of task t: the conversation of the iteration is
\* made with the story id if it is not there, and the message is appended.
\* runs is the set of the runs whose messages the conversation holds
add_subagent_message(convs, iteration, story_id, t) ==
    [convs EXCEPT ![iteration] =
        IF @.runs = {}
        THEN [story_id |-> story_id, runs |-> {t}]
        ELSE [@ EXCEPT !.runs = @ \cup {t}]]

\* lines 81-86 and the dispatcher up to its first await (121-149, 182-204):
\* the strategy is chosen, the "system" message is added to the conversation,
\* CLAUDE.md is looked up, the agent is called
iter_start(t, claude_md_exists) ==
    /\ task[t].pc = "iter_start"
    /\ subagent_conversations' =
           add_subagent_message(subagent_conversations, task[t].iteration,
                                task[t].story, t)
    /\ LET rec == [task[t] EXCEPT
                      !.strategy = IF use_api /\ anthropic_client THEN "api" ELSE "cli",
                      !.success = FALSE,
                      !.errs = 0,
                      !.n_dispatch = @ + 1]
       IN  task' = [task EXCEPT ![t] =
                       IF claude_md_exists THEN [rec EXCEPT !.pc = "agent"]
                       ELSE dispatch_error(rec)]
    /\ UNCHANGED <<running, current_iteration, max_iterations, use_api, anthropic_client,
                   stop_requested>>
    /\ UNCHANGED prdVars
    /\ UNCHANGED runnerVars
    /\ UNCHANGED putVars
    /\ UNCHANGED wsVars
    /\ UNCHANGED archVars
    /\ UNCHANGED logVars

\* lines 149-167, 204-234: the stream or the subprocess ends. raised: the API call,
\* create_subprocess_exec (no binary) or communicate raised; otherwise the output
\* is there, with or without the sentinel, and the process has its exit code
agent_returns(t, raised, sentinel, rc) ==
    /\ task[t].pc = "agent"
    /\ subagent_conversations' =
           IF raised THEN subagent_conversations
           ELSE add_subagent_message(subagent_conversations, task[t].iteration,
                                     task[t].story, t)
    /\ raised => ~sentinel /\ rc = 0
    /\ task[t].strategy = "api" => rc = 0
    /\ LET rec == task[t]
           got == [rec EXCEPT !.output_sentinel = sentinel,
                              !.returncode = rc,
                              !.output = TRUE,
                              !.recorded = TRUE,
                              !.detected = TRUE]
       IN  task' = [task EXCEPT ![t] =
                       IF raised THEN dispatch_error(rec)
                       ELSE IF sentinel THEN Return(got, TRUE)
                       ELSE [got EXCEPT !.pc = "reread"]]
    /\ UNCHANGED <<running, current_iteration, max_iterations, use_api, anthropic_client,
                   stop_requested>>
    /\ UNCHANGED prdVars
    /\ UNCHANGED runnerVars
    /\ UNCHANGED putVars
    /\ UNCHANGED wsVars
    /\ UNCHANGED archVars
    /\ UNCHANGED logVars

\* a dispatcher that sets the flag of its story itself once the agent is back
reread_marking(t) ==
    /\ task[t].pc = "reread"
    /\ LET rec == task[t]
       IN  /\ task' = [task EXCEPT ![t] =
                          IF get_prd_raises(prd) \/ get_prd(prd) = <<>>
                          THEN dispatch_error(rec)
                          ELSE Return(rec, TRUE)]
           /\ prd' = IF get_prd_raises(prd) \/ get_prd(prd) = <<>>
                     THEN prd
                     ELSE update_user_story_doc(prd, rec.story, TRUE)
    /\ UNCHANGED <<running, current_iteration, max_iterations, use_api, anthropic_client,
                   stop_requested>>
    /\ UNCHANGED <<prd_written, prd0, next_story_ret>>
    /\ UNCHANGED runnerVars
    /\ UNCHANGED putVars
    /\ UNCHANGED wsVars
    /\ UNCHANGED convVars
    /\ UNCHANGED archVars
    /\ UNCHANGED logVars

\* lines 170-176, 237-243: get_prd returns; None has no userStories (AttributeError)
reread(t) ==
    /\ task[t].pc = "reread"
    /\ LET rec == task[t]
       IN  task' = [task EXCEPT ![t] =
                       IF get_prd_raises(prd) \/ get_prd(prd) = <<>>
                       THEN dispatch_error(rec)
                       ELSE Return(rec, story_marked_complete(prd, rec.story))]
    /\ UNCHANGED <<running, current_iteration, max_iterations, use_api, anthropic_client,
                   stop_requested>>
    /\ UNCHANGED prdVars
    /\ UNCHANGED runnerVars
    /\ UNCHANGED putVars
    /\ UNCHANGED wsVars
    /\ UNCHANGED convVars
    /\ UNCHANGED archVars
    /\ UNCHANGED logVars

\* a loop that does not look at the answer of all_stories_complete
all_complete_unread(t) ==
    /\ task[t].pc = "all_complete"
    /\ task' = [task EXCEPT ![t] = [task[t] EXCEPT !.errs = 0, !.pc = "sleep"]]
    /\ UNCHANGED <<running, current_iteration, max_iterations, use_api, anthropic_client,
                   stop_requested>>
    /\ UNCHANGED prdVars
    /\ UNCHANGED runnerVars
    /\ UNCHANGED putVars
    /\ UNCHANGED wsVars
    /\ UNCHANGED convVars
    /\ UNCHANGED archVars
    /\ UNCHANGED logVars

\* lines 98-107: all_stories_complete returns
all_complete(t) ==
    /\ task[t].pc = "all_complete"
    /\ LET rec == [task[t] EXCEPT !.errs = 0]
       IN  task' = [task EXCEPT ![t] =
                       IF get_prd_raises(prd)
                       THEN [rec EXCEPT !.pc = "exc_bcast", !.exc_msg = TRUE]
                       ELSE IF all_stories_complete(prd)
                       THEN [rec EXCEPT !.pc = "bc_complete", !.n_complete = @ + 1]
                       ELSE [rec EXCEPT !.pc = "sleep"]]
    /\ UNCHANGED <<running, current_iteration, max_iterations, use_api, anthropic_client,
                   stop_requested>>
    /\ UNCHANGED prdVars
    /\ UNCHANGED runnerVars
    /\ UNCHANGED putVars
    /\ UNCHANGED wsVars
    /\ UNCHANGED convVars
    /\ UNCHANGED archVars
    /\ UNCHANGED logVars

\* lines 71-72, 103-104, then 109-119: broadcast_complete returns, break
bc_complete(t) ==
    /\ task[t].pc = "bc_complete"
    /\ Apply(t, AfterLoop(task[t], current_iteration, max_iterations))
    /\ UNCHANGED <<max_iterations, use_api, anthropic_client, stop_requested>>
    /\ UNCHANGED prdVars
    /\ UNCHANGED runnerVars
    /\ UNCHANGED putVars
    /\ UNCHANGED wsVars
    /\ UNCHANGED convVars
    /\ UNCHANGED archVars
    /\ UNCHANGED logVars

\* lines 52-56, then 109-119: the stopped message is out, break
stopped_bcast(t) ==
    /\ task[t].pc = "stopped_bcast"
    /\ Apply(t, AfterLoop(task[t], current_iteration, max_iterations))
    /\ UNCHANGED <<max_iterations, use_api, anthropic_client, stop_requested>>
    /\ UNCHANGED prdVars
    /\ UNCHANGED runnerVars
    /\ UNCHANGED putVars
    /\ UNCHANGED wsVars
    /\ UNCHANGED convVars
    /\ UNCHANGED archVars
    /\ UNCHANGED logVars

\* line 107, then 50-65: the delay is over, the next iteration
sleep(t) ==
    /\ task[t].pc = "sleep"
    /\ Apply(t, LoopHead(task[t], task[t].iteration + 1, running, current_iteration,
                         max_iterations))
    /\ UNCHANGED <<max_iterations, use_api, anthropic_client, stop_requested>>
    /\ UNCHANGED prdVars
    /\ UNCHANGED runnerVars
    /\ UNCHANGED putVars
    /\ UNCHANGED wsVars
    /\ UNCHANGED convVars
    /\ UNCHANGED archVars
    /\ UNCHANGED logVars

\* lines 115-119: the handler's broadcast_error returns, then the finally block
exc_bcast(t) ==
    /\ task[t].pc = "exc_bcast"
    /\ task' = [task EXCEPT ![t] = Finished(task[t])]
    /\ running' = FALSE
    /\ current_iteration' = 0
    /\ UNCHANGED <<max_iterations, use_api, anthropic_client, stop_requested>>
    /\ UNCHANGED prdVars
    /\ UNCHANGED runnerVars
    /\ UNCHANGED putVars
    /\ UNCHANGED wsVars
    /\ UNCHANGED convVars
    /\ UNCHANGED archVars
    /\ UNCHANGED logVars

\* the event loop drops a finished task; nothing of the coroutine is left
task_done(t) ==
    /\ task[t].pc = "done"
    /\ task' = [task EXCEPT ![t] = [IdleTask EXCEPT !.pc = "gone"]]
    /\ UNCHANGED <<running, current_iteration, max_iterations, use_api, anthropic_client,
                   stop_requested>>
    /\ UNCHANGED prdVars
    /\ UNCHANGED runnerVars
    /\ UNCHANGED putVars
    /\ UNCHANGED wsVars
    /\ UNCHANGED convVars
    /\ UNCHANGED archVars
    /\ UNCHANGED logVars

\* stop_loop, lines 249-255
stop_loop ==
    /\ running' = FALSE
    /\ stop_requested' = TRUE
    /\ task' = [t \in Tasks |->
                  IF task[t].pc \in DispatchPcs
                  THEN [task[t] EXCEPT !.stop_seen = TRUE]
                  ELSE task[t]]
    /\ UNCHANGED <<current_iteration, max_iterations, use_api, anthropic_client>>
    /\ UNCHANGED prdVars
    /\ UNCHANGED runnerVars
    /\ UNCHANGED putVars
    /\ UNCHANGED wsVars
    /\ UNCHANGED convVars
    /\ UNCHANGED archVars
    /\ UNCHANGED logVars

\* POST /api/ralph/stop: 400 when not running
stop_ralph ==
    /\ running
    /\ stop_loop

stop_ralph_rejected ==
    /\ ~running
    /\ UNCHANGED vars

\* ------------------------------------------------------------------ writers of prd.json
\* the agent called by task t edits prd.json itself: it sets a story's passes flag
agent_writes_prd(t, i) ==
    /\ task[t].pc = "agent"
    /\ prd.status = "ok"
    /\ i \in DOMAIN prd.userStories
    /\ ~prd.userStories[i].passes
    /\ prd' = [prd EXCEPT !.userStories[i].passes = TRUE]
    /\ prd_written' = TRUE
    /\ UNCHANGED <<prd0, next_story_ret>>
    /\ UNCHANGED orchVars
    /\ UNCHANGED runnerVars
    /\ UNCHANGED putVars
    /\ UNCHANGED wsVars
    /\ UNCHANGED convVars
    /\ UNCHANGED archVars
    /\ UNCHANGED logVars

\* no call of update_user_story yet
NoUpdate == [n |-> 0, story_id |-> 0, passes |-> FALSE, code |-> 0, again |-> FALSE]

\* PUT /api/prd/stories/{story_id} (prd_endpoints.py lines 59-67) with
\* PRDService.update_user_story: ValueError without a document or without a
\* story of the id, answered 404 with nothing written; an exception of get_prd
\* is answered 500; else the flag of the first story of the id is set and
\* save_prd writes model_dump_json(indent=2)
update_user_story(story_id, passes) ==
    /\ update_ret.n < MaxUpdates
    /\ LET found == /\ prd.status = "ok"
                    /\ \E i \in DOMAIN prd.userStories : prd.userStories[i].id = story_id
           code == IF get_prd_raises(prd) THEN 500 ELSE IF found THEN 200 ELSE 404
       IN  /\ prd' = IF found THEN update_user_story_doc(prd, story_id, passes) ELSE prd
           /\ prd_text' = IF found THEN "dumped" ELSE prd_text
           /\ prd_written' = (prd_written \/ found)
           /\ update_ret' = [n |-> update_ret.n + 1, story_id |-> story_id,
                             passes |-> passes, code |-> code,
                             \* history: the call before was the same, and answered 200
                             again |-> /\ update_ret.code = 200
                                       /\ update_ret.story_id = story_id
                                       /\ update_ret.passes = passes]
    /\ UNCHANGED <<prd0, next_story_ret>>
    /\ UNCHANGED orchVars
    /\ UNCHANGED wsVars
    /\ UNCHANGED convVars
    /\ UNCHANGED runnerVars
    /\ UNCHANGED archVars
    /\ UNCHANGED logVars

\* GET /api/prd/next-story
get_next_story ==
    /\ ~get_prd_raises(prd)
    /\ next_story_ret' = <<prd, get_next_incomplete_story(prd)>>
    /\ UNCHANGED <<prd, prd_written, prd0>>
    /\ UNCHANGED orchVars
    /\ UNCHANGED runnerVars
    /\ UNCHANGED putVars
    /\ UNCHANGED wsVars
    /\ UNCHANGED convVars
    /\ UNCHANGED archVars
    /\ UNCHANGED logVars

\* ------------------------------------------------------------------ runner
Projects == 1..MaxProjects

\* models/websocket.py: the values WebSocketMessage.type accepts
WebSocketMessageTypes ==
    {"orchestrator_message", "subagent_message", "tool_call", "tool_result",
     "iteration_start", "iteration_complete", "story_update", "progress_update",
     "git_commit", "error", "complete"}

\* ConnectionManager.broadcast_project_ralph_message builds
\* WebSocketMessage(type=f"project_ralph_{msg_type}"): pydantic raises a
\* ValidationError for a type outside the Literal
send_message_raises(msg_type) ==
    ("project_ralph_" \o msg_type) \notin WebSocketMessageTypes

\* the msg_type of the first _send_message of _run_ralph_process: "error"
\* without a binary (line 126), "system" with one (line 144)
first_msg_type(claude_binary) == IF claude_binary THEN "system" ELSE "error"

\* the type broadcast_project_ralph_message gives the message, line 216
project_ralph_type(msg_type) == "project_ralph_" \o msg_type

\* the types the broadcast_* methods of ConnectionManager give their messages,
\* lines 51-167
ManagerTypes ==
    {"orchestrator_message", "subagent_message", "tool_call", "tool_result",
     "iteration_start", "iteration_complete", "story_update", "progress_update",
     "git_commit", "error", "complete"}

\* RalphRunner.is_running
is_running(p) == p \in running_processes

respond(p, code) == responses' = [responses EXCEPT ![p] = Append(@, code)]

\* POST /api/projects/{p}/ralph/start with RalphRunner.start_ralph_loop: 400 when
\* the runner holds the project id, else the task is created and registered
project_start(p) ==
    /\ Len(responses[p]) < MaxResponses
    /\ IF is_running(p)
       THEN /\ respond(p, 400)
            /\ UNCHANGED <<running_processes, runner_task, project_conversations,
                           ralph_status>>
       ELSE /\ project_conversations' = [project_conversations EXCEPT ![p] = "running"]
            /\ runner_task' = [runner_task EXCEPT ![p] = "created"]
            /\ running_processes' = running_processes \cup {p}
            /\ ralph_status' = [ralph_status EXCEPT ![p] = "running"]
            /\ respond(p, 200)
    /\ UNCHANGED binary_lookup
    /\ UNCHANGED putVars
    /\ UNCHANGED wsVars
    /\ UNCHANGED convVars
    /\ UNCHANGED orchVars
    /\ UNCHANGED prdVars
    /\ UNCHANGED logVars
    /\ UNCHANGED archVars

\* RalphRunner._run_ralph_process from its start to its first suspension. The
\* first _send_message is "error" without a binary and "system" with one; when it
\* raises, the handler of line 204 sends "error", and when that raises too the
\* task ends with the exception and project_conversations is left as it was.
run_ralph_process(p, claude_binary) ==
    /\ runner_task[p] = "created"
    /\ LET first == first_msg_type(claude_binary)
       IN  IF send_message_raises(first)
           THEN IF send_message_raises("error")
                THEN /\ runner_task' = [runner_task EXCEPT ![p] = "raised"]
                     /\ UNCHANGED project_conversations
                ELSE /\ runner_task' = [runner_task EXCEPT ![p] = "returned"]
                     /\ project_conversations' =
                            [project_conversations EXCEPT ![p] = "error"]
           ELSE /\ runner_task' =
                      [runner_task EXCEPT ![p] = IF claude_binary THEN "spawned"
                                                 ELSE "returned"]
                /\ UNCHANGED project_conversations
    /\ binary_lookup' = [binary_lookup EXCEPT ![p] = IF claude_binary THEN "found"
                                                     ELSE "missing"]
    /\ UNCHANGED <<running_processes, ralph_status, responses>>
    /\ UNCHANGED putVars
    /\ UNCHANGED wsVars
    /\ UNCHANGED convVars
    /\ UNCHANGED orchVars
    /\ UNCHANGED prdVars
    /\ UNCHANGED logVars
    /\ UNCHANGED archVars

\* POST /api/projects/{p}/ralph/stop with RalphRunner.stop_ralph_loop: 404 without
\* an entry; else task.cancel() and await task, which raises what the task ended
\* with; only CancelledError is caught, and only then the entry is deleted
project_stop(p) ==
    /\ Len(responses[p]) < MaxResponses
    /\ runner_task[p] # "created"
    /\ IF ~is_running(p)
       THEN /\ respond(p, 404)
            /\ UNCHANGED <<running_processes, runner_task, project_conversations,
                           ralph_status>>
       ELSE LET cancelled == runner_task[p] = "spawned" /\ ~send_message_raises("system")
                awaited == IF runner_task[p] = "spawned"
                           THEN IF cancelled THEN "cancelled" ELSE "raised"
                           ELSE runner_task[p]
            IN  /\ runner_task' = [runner_task EXCEPT ![p] = awaited]
                /\ IF awaited = "raised"
                   THEN /\ respond(p, 500)
                        /\ UNCHANGED <<running_processes, project_conversations,
                                       ralph_status>>
                   ELSE /\ running_processes' = running_processes \ {p}
                        /\ project_conversations' =
                               [project_conversations EXCEPT ![p] = "stopped"]
                        /\ ralph_status' = [ralph_status EXCEPT ![p] = "stopped"]
                        /\ respond(p, 200)
    /\ UNCHANGED binary_lookup
    /\ UNCHANGED putVars
    /\ UNCHANGED wsVars
    /\ UNCHANGED convVars
    /\ UNCHANGED orchVars
    /\ UNCHANGED prdVars
    /\ UNCHANGED logVars
    /\ UNCHANGED archVars

InitRunner ==
    /\ running_processes = {}
    /\ runner_task = [p \in Projects |-> "none"]
    /\ project_conversations = [p \in Projects |-> "none"]
    /\ ralph_status = [p \in Projects |-> "not_started"]
    /\ responses = [p \in Projects |-> <<>>]
    /\ binary_lookup = [p \in Projects |-> "none"]

\* ------------------------------------------------------------------ event log
\* RalphEventLogger for one project id, with the project's ralph_events.jsonl.
\* The loop of RalphOrchestrator has no project of its own; this is the log of
\* the workspace it works in.
EVENT_TYPES == {"story_start", "story_complete", "commit", "error", "system"}

\* story_id is None (0) or a story id
LogStoryIds == 0..MaxStories

\* the dict built by log_event, lines 88-94; passed is data["passed"]
Event(ts, type, sid, passed) ==
    [timestamp |-> ts, event_type |-> type, story_id |-> sid, passed |-> passed]

\* a writer that leaves the story out of the line
json_dumps_no_story(e) == <<"{", e.timestamp, e.event_type, 0, e.passed, "}">>

\* json.dumps(event) + newline: one line of the file
json_dumps(e) == <<"{", e.timestamp, e.event_type, e.story_id, e.passed, "}">>

\* a line that was cut short, and an empty line
TruncatedLine == <<"{">>
BlankLine == <<>>

\* json.loads(line) raises unless the line is a whole record
json_loads_raises(line) == ~(Len(line) = 6 /\ line[1] = "{" /\ line[6] = "}")
json_loads(line) == Event(line[2], line[3], line[4], line[5])

\* lines 308-316: the lines are read in order, blank ones skipped; the try
\* statement encloses the loop, so the first line that does not parse ends it
RECURSIVE read_lines(_)
read_lines(lines) ==
    IF lines = <<>> THEN <<>>
    ELSE IF Head(lines) = BlankLine THEN read_lines(Tail(lines))
    ELSE IF json_loads_raises(Head(lines)) THEN <<>>
    ELSE <<json_loads(Head(lines))>> \o read_lines(Tail(lines))

\* a cache that never drops an event
deque_append_unbounded(q, e, maxlen) == Append(q, e)

\* deque(maxlen=...).append: a full deque drops its oldest element
deque_append(q, e, maxlen) ==
    IF maxlen = 0 THEN <<>>
    ELSE IF Len(q) >= maxlen THEN Append(Tail(q), e)
    ELSE Append(q, e)

\* what a call of the logger answered
Ret(op, args, raised, result) ==
    [op |-> op, args |-> args, raised |-> raised, result |-> result]

\* no call was answered
NoRet == Ret("", <<>>, FALSE, <<>>)

\* lines 39-61: a fresh cache; the file is created if it is not there, and is
\* left as it is if it is
initialize_project ==
    /\ project_files' = TRUE
    /\ project_events' = <<>>
    /\ init_at' = Len(log_calls)
    /\ log_ret' = Ret("initialize_project", <<>>, FALSE, <<>>)
    /\ UNCHANGED <<events_file, max_memory_events, clock, log_calls>>
    /\ UNCHANGED orchVars
    /\ UNCHANGED prdVars
    /\ UNCHANGED runnerVars
    /\ UNCHANGED putVars
    /\ UNCHANGED wsVars
    /\ UNCHANGED convVars
    /\ UNCHANGED archVars

\* a logger whose failed write reaches the caller
log_event_unguarded(event_type, story_id, passed, write_ok, tick) ==
    /\ Len(log_calls) < MaxLogCalls
    /\ clock + tick <= MaxClock
    /\ clock' = clock + tick
    /\ LET event == Event(clock', event_type, story_id, passed)
       IN  IF ~project_files
           THEN /\ log_ret' = Ret("log_event", <<>>, TRUE, <<>>)
                /\ log_calls' = Append(log_calls,
                                       [event |-> event, raised |-> TRUE, written |-> FALSE])
                /\ UNCHANGED <<project_events, events_file>>
           ELSE /\ project_events' = deque_append(project_events, event, max_memory_events)
                /\ events_file' = IF write_ok THEN Append(events_file, json_dumps(event))
                                  ELSE events_file
                /\ log_ret' = IF write_ok THEN Ret("log_event", <<>>, FALSE, <<event>>)
                              ELSE Ret("log_event", <<>>, TRUE, <<>>)
                /\ log_calls' = Append(log_calls,
                                       [event |-> event, raised |-> ~write_ok,
                                        written |-> write_ok])
    /\ UNCHANGED <<project_files, max_memory_events, init_at>>
    /\ UNCHANGED orchVars
    /\ UNCHANGED prdVars
    /\ UNCHANGED runnerVars
    /\ UNCHANGED putVars
    /\ UNCHANGED wsVars
    /\ UNCHANGED convVars
    /\ UNCHANGED archVars

\* lines 84-101 with _write_event_to_file (473-480): ValueError for a project id
\* that is not in project_files; else the event is built, appended to the cache
\* and written to the file, where open and write may raise (write_ok is false),
\* which is caught and printed; the event is returned
log_event(event_type, story_id, passed, write_ok, tick) ==
    /\ Len(log_calls) < MaxLogCalls
    /\ clock + tick <= MaxClock
    /\ clock' = clock + tick
    /\ LET event == Event(clock', event_type, story_id, passed)
       IN  IF ~project_files
           THEN /\ log_ret' = Ret("log_event", <<>>, TRUE, <<>>)
                /\ log_calls' = Append(log_calls,
                                       [event |-> event, raised |-> TRUE, written |-> FALSE])
                /\ UNCHANGED <<project_events, events_file>>
           ELSE /\ project_events' = deque_append(project_events, event, max_memory_events)
                /\ events_file' = IF write_ok THEN Append(events_file, json_dumps(event))
                                  ELSE events_file
                /\ log_ret' = Ret("log_event", <<>>, FALSE, <<event>>)
                /\ log_calls' = Append(log_calls,
                                       [event |-> event, raised |-> FALSE, written |-> write_ok])
    /\ UNCHANGED <<project_files, max_memory_events, init_at>>
    /\ UNCHANGED orchVars
    /\ UNCHANGED prdVars
    /\ UNCHANGED runnerVars
    /\ UNCHANGED putVars
    /\ UNCHANGED wsVars
    /\ UNCHANGED convVars
    /\ UNCHANGED archVars

\* the process is started again: line 491 builds a new logger, the file stays
restart ==
    /\ project_files' = FALSE
    /\ project_events' = <<>>
    /\ log_ret' = NoRet
    /\ UNCHANGED <<events_file, max_memory_events, clock, log_calls, init_at>>
    /\ UNCHANGED orchVars
    /\ UNCHANGED prdVars
    /\ UNCHANGED runnerVars
    /\ UNCHANGED putVars
    /\ UNCHANGED wsVars
    /\ UNCHANGED convVars
    /\ UNCHANGED archVars

\* lines 482-487
cleanup_project ==
    /\ project_files' = FALSE
    /\ project_events' = <<>>
    /\ log_ret' = Ret("cleanup_project", <<>>, FALSE, <<>>)
    /\ UNCHANGED <<events_file, max_memory_events, clock, log_calls, init_at>>
    /\ UNCHANGED orchVars
    /\ UNCHANGED prdVars
    /\ UNCHANGED runnerVars
    /\ UNCHANGED putVars
    /\ UNCHANGED wsVars
    /\ UNCHANGED convVars
    /\ UNCHANGED archVars

\* the logger and the file are left as they are by the calls that read
Reads ==
    /\ UNCHANGED <<project_files, project_events, events_file, max_memory_events, clock,
                   log_calls, init_at>>
    /\ UNCHANGED orchVars
    /\ UNCHANGED prdVars
    /\ UNCHANGED runnerVars
    /\ UNCHANGED putVars
    /\ UNCHANGED wsVars
    /\ UNCHANGED convVars
    /\ UNCHANGED archVars

\* lines 301-318: [] for a project id that is not in project_files
read_history == IF project_files THEN read_lines(events_file) ELSE <<>>

get_all_events_from_file ==
    /\ log_ret' = Ret("get_all_events_from_file", <<>>, FALSE, read_history)
    /\ Reads

\* lines 275-279: a filter that is None or empty is not applied
filter_events(events, event_type, story_id) ==
    SelectSeq(events, LAMBDA e : /\ event_type # "" => e.event_type = event_type
                                 /\ story_id # 0 => e.story_id = story_id)

\* x goes behind the events that are as recent as x or more recent
insert_by_timestamp(sorted, x) ==
    LET behind == {i \in DOMAIN sorted : sorted[i].timestamp >= x.timestamp}
        k == Cardinality(behind)
    IN  SubSeq(sorted, 1, k) \o <<x>> \o SubSeq(sorted, k + 1, Len(sorted))

\* line 282: list.sort(key=timestamp, reverse=True), which is stable
RECURSIVE sort_by_timestamp(_)
sort_by_timestamp(s) ==
    IF s = <<>> THEN <<>>
    ELSE insert_by_timestamp(sort_by_timestamp(SubSeq(s, 1, Len(s) - 1)), s[Len(s)])

\* lines 285-286: `if limit:` then events[:limit]; limit is <<>> for None
truncate(events, limit) ==
    IF limit = <<>> \/ limit[1] = 0 THEN events
    ELSE IF limit[1] > 0
         THEN SubSeq(events, 1, IF limit[1] < Len(events) THEN limit[1] ELSE Len(events))
         ELSE SubSeq(events, 1, IF Len(events) + limit[1] > 0 THEN Len(events) + limit[1]
                                ELSE 0)

\* lines 251-289
get_events_of(limit, event_type, story_id) ==
    IF ~project_files THEN <<>>
    ELSE truncate(sort_by_timestamp(filter_events(project_events, event_type, story_id)),
                  limit)

get_events(limit, event_type, story_id) ==
    /\ log_ret' = Ret("get_events", <<limit, event_type, story_id>>, FALSE,
                      get_events_of(limit, event_type, story_id))
    /\ Reads

\* lines 329-338 and 347-353
NewSummary(n) ==
    [total_events |-> n,
     event_types |-> [ty \in EVENT_TYPES |-> 0],
     stories |-> <<>>,
     story_status |-> <<>>,
     last_event_time |-> 0,
     total_commits |-> 0,
     total_errors |-> 0]

NewStory == [status |-> "in_progress", events |-> 0, commits |-> 0, errors |-> 0]

\* d[k] = v
Put(d, k, v) == [x \in DOMAIN d \cup {k} |-> IF x = k THEN v ELSE d[x]]

\* lines 342-377: one turn of the loop over the events
count_event(sum, e) ==
    LET ty == e.event_type
        sid == e.story_id
        status == IF e.passed THEN "completed" ELSE "failed"
        st0 == IF sid \in DOMAIN sum.stories THEN sum.stories[sid] ELSE NewStory
        st1 == [st0 EXCEPT
                   !.events = @ + 1,
                   !.status = IF ty = "story_start" THEN "in_progress"
                              ELSE IF ty = "story_complete" THEN status
                              ELSE @,
                   !.commits = IF ty = "commit" THEN @ + 1 ELSE @,
                   !.errors = IF ty = "error" THEN @ + 1 ELSE @]
    IN  [sum EXCEPT
            !.event_types[ty] = @ + 1,
            !.stories = IF sid # 0 THEN Put(sum.stories, sid, st1) ELSE @,
            !.story_status =
                IF sid # 0 /\ ty = "story_start"
                THEN Put(sum.story_status, sid, "in_progress")
                ELSE IF sid # 0 /\ ty = "story_complete"
                THEN Put(sum.story_status, sid, status)
                ELSE @,
            !.total_commits = IF ty = "commit" THEN @ + 1 ELSE @,
            !.total_errors = IF ty = "error" THEN @ + 1 ELSE @]

RECURSIVE count_events(_, _)
count_events(sum, events) ==
    IF events = <<>> THEN sum
    ELSE count_events(count_event(sum, Head(events)), Tail(events))

\* lines 327-394
get_summary_of(events) ==
    LET sum == count_events(NewSummary(Len(events)), events)
        with(status) == Cardinality({k \in DOMAIN sum.story_status :
                                        sum.story_status[k] = status})
    IN  [total_events |-> sum.total_events,
         event_types |-> sum.event_types,
         stories |-> sum.stories,
         total_commits |-> sum.total_commits,
         total_errors |-> sum.total_errors,
         stories_completed |-> with("completed"),
         stories_in_progress |-> with("in_progress"),
         last_event_time |-> IF events = <<>> THEN 0
                             ELSE events[Len(events)].timestamp]

get_summary ==
    /\ log_ret' = Ret("get_summary", <<>>, FALSE, get_summary_of(read_history))
    /\ Reads

\* a logger nobody initialized, an empty file
InitLogIdle ==
    /\ project_files = FALSE
    /\ project_events = <<>>
    /\ events_file = <<>>
    /\ max_memory_events = DEFAULT_MAX_MEMORY_EVENTS
    /\ clock = 1
    /\ log_ret = NoRet
    /\ log_calls = <<>>
    /\ init_at = 0

\* ------------------------------------------------------------------ standalone runner
\* ralphython.py keeps prd.json, progress.txt, .last-branch and archive/ next to
\* the script. A branch name is the sequence of its segments: "ralph/a" is
\* <<"ralph", "a">>, and <<>> is the empty name.
Branches == {<<"ralph", "a">>, <<"a">>, <<"b">>, <<"feature", "a">>}

\* a file that is not there
Absent == [exists |-> FALSE]

\* prd.json with its branchName (<<>>: none, or a document that does not parse),
\* whether a story passes, and the line ends of the file
PrdFile(branch) ==
    [exists |-> TRUE, branchName |-> branch, passes |-> FALSE, newline |-> "lf"]

\* Path.read_text: universal newlines, "\r\n" is read as "\n"
read_text(f) == [f EXCEPT !.newline = "lf"]

\* Path.write_text: "\n" is written as os.linesep, "\n" on POSIX
write_text(text) == text

\* .last-branch with its text
BranchFile(text) == [exists |-> TRUE, text |-> text]

\* progress.txt: the header with its "Started:" line, and the notes below it
ProgressFile(started, notes) == [exists |-> TRUE, started |-> started, notes |-> notes]

\* the files next to the script
Files(p, l, g, a) ==
    [prd_file |-> p, last_branch_file |-> l, progress_file |-> g, archive |-> a]

\* lines 52-58
read_branch_name(f) == f.branchName

\* last_branch.removeprefix("ralph/")
removeprefix(branch) ==
    IF Len(branch) > 1 /\ Head(branch) = "ralph" THEN Tail(branch) ELSE branch

\* lines 72-101: nothing without prd.json or .last-branch, or when a name is
\* empty or the names are equal; else the folder {date}-{name} is made if it is
\* not there (mkdir with exist_ok), the files that exist are written into it,
\* and progress.txt is written anew
archive_previous_run(fs, date) ==
    IF ~fs.prd_file.exists \/ ~fs.last_branch_file.exists THEN fs
    ELSE LET current_branch == read_branch_name(fs.prd_file)
             last_branch == fs.last_branch_file.text
             archive_folder == <<date, removeprefix(last_branch)>>
             held == IF archive_folder \in DOMAIN fs.archive
                     THEN fs.archive[archive_folder]
                     ELSE [prd |-> Absent, progress |-> Absent]
             holds == [prd |-> write_text(read_text(fs.prd_file)),
                       progress |-> IF fs.progress_file.exists THEN fs.progress_file
                                    ELSE held.progress]
         IN  IF current_branch = <<>> \/ last_branch = <<>> \/ current_branch = last_branch
             THEN fs
             ELSE [fs EXCEPT !.archive = Put(fs.archive, archive_folder, holds),
                             !.progress_file = ProgressFile(date, 0)]

\* Path.exists of a folder below the archive root: a folder is <<date, path>>
\* for archive/{date}-{path}, and is there when it or a folder below it was made
path_exists(a, folder) ==
    \E f \in DOMAIN a :
        /\ f[1] = folder[1]
        /\ Len(f[2]) >= Len(folder[2])
        /\ SubSeq(f[2], 1, Len(folder[2])) = folder[2]

\* archiver.py line 100: last_branch.replace("/", "-")
RECURSIVE replace_slash(_)
replace_slash(branch) ==
    IF branch = <<>> THEN ""
    ELSE IF Len(branch) = 1 THEN branch[1]
    ELSE branch[1] \o "-" \o replace_slash(Tail(branch))

\* archiver.py lines 101-109: {date}-{name}, then {date}-{name}-1, -2, ... until
\* the path is free (counter 0 stands for the name without a suffix)
RECURSIVE free_archive_path(_, _, _, _)
free_archive_path(a, date, safe_branch, counter) ==
    LET name == IF counter = 0 THEN safe_branch
                ELSE safe_branch \o "-" \o ToString(counter)
    IN  IF path_exists(a, <<date, <<name>>>>)
        THEN free_archive_path(a, date, safe_branch, counter + 1)
        ELSE <<date, <<name>>>>

\* the files that exist are copied into the folder
copies == [prd |-> prd_file, progress |-> progress_file]

\* archiver.py lines 78-122, archive_previous_run(last_branch, current_branch)
\* with the default paths: a new folder with copies of prd.json and progress.txt
archiver_archive_previous_run(last_branch) ==
    /\ archive' = Put(archive,
                      free_archive_path(archive, today, replace_slash(last_branch), 0),
                      copies)
    /\ Cardinality(DOMAIN archive') <= MaxFolders
    /\ last_op' = "archiver"
    /\ UNCHANGED <<prd_file, last_branch_file, progress_file, today, main_call>>
    /\ UNCHANGED cliVars
    /\ UNCHANGED orchVars
    /\ UNCHANGED prdVars
    /\ UNCHANGED runnerVars
    /\ UNCHANGED putVars
    /\ UNCHANGED wsVars
    /\ UNCHANGED convVars
    /\ UNCHANGED logVars

\* lines 104-109
track_current_branch(fs) ==
    IF ~fs.prd_file.exists \/ read_branch_name(fs.prd_file) = <<>> THEN fs
    ELSE [fs EXCEPT !.last_branch_file = BranchFile(read_branch_name(fs.prd_file))]

\* a runner that writes the header at every start
ensure_progress_file_anew(fs, date) ==
    [fs EXCEPT !.progress_file = ProgressFile(date, 0)]

\* lines 61-69
ensure_progress_file(fs, date) ==
    IF fs.progress_file.exists THEN fs
    ELSE [fs EXCEPT !.progress_file = ProgressFile(date, 0)]

\* no call of main yet
NoRun ==
    [pc |-> "idle",          \* "agent": _run_and_capture is awaited; "over": main ended
     max_iterations |-> 0,   \* args.max_iterations
     i |-> 0,                \* the loop variable
     prd_src |-> <<>>,       \* the document --prd named, <<>> without --prd
     found |-> Absent,       \* history: .last-branch as main found it
     invocations |-> 0,      \* history: calls of _run_and_capture
     sentinel |-> FALSE,     \* history: an output held <promise>COMPLETE</promise>
     returned |-> "none"]    \* what main returned: "0", "1", or "raised"

\* main is over
Over(r, code) == [r EXCEPT !.pc = "over", !.i = 0, !.returned = code]

\* a runner that ignores --prd
ingest_prd_skipped(ingest) == prd_file

\* lines 156-161: the text of the document --prd names is written to prd.json
ingest_prd(ingest) ==
    IF ingest = <<>> THEN prd_file ELSE write_text(read_text(ingest[1]))

\* main, lines 142-169: --prd (ingest is <<>> without it) names a document; when
\* the file is missing main returns 1; else the document is copied over
\* prd.json, the previous run is archived, the branch is tracked, progress.txt
\* is made, and the loop calls the agent unless range(1, max_iterations + 1) is
\* empty
main(ingest, max_arg) ==
    /\ main_call.pc # "agent"
    /\ LET r == [NoRun EXCEPT !.max_iterations = max_arg, !.prd_src = ingest,
                               !.found = last_branch_file]
       IN  IF ingest # <<>> /\ ~ingest[1].exists
           THEN /\ main_call' = Over(r, "1")
                /\ last_op' = "no_prd"
                /\ UNCHANGED <<prd_file, last_branch_file, progress_file, archive>>
           ELSE /\ LET fs0 == Files(ingest_prd(ingest),
                                    last_branch_file, progress_file, archive)
                       fs1 == archive_previous_run(fs0, today)
                       fs2 == track_current_branch(fs1)
                       fs3 == ensure_progress_file(fs2, today)
                   IN  /\ prd_file' = fs3.prd_file
                       /\ last_branch_file' = fs3.last_branch_file
                       /\ progress_file' = fs3.progress_file
                       /\ archive' = fs3.archive
                /\ Cardinality(DOMAIN archive') <= MaxFolders
                /\ last_op' = "main"
                /\ main_call' = IF max_arg >= 1
                          THEN [r EXCEPT !.pc = "agent", !.i = 1]
                          ELSE Over(r, "1")
    /\ UNCHANGED today
    /\ UNCHANGED cliVars
    /\ UNCHANGED orchVars
    /\ UNCHANGED prdVars
    /\ UNCHANGED runnerVars
    /\ UNCHANGED putVars
    /\ UNCHANGED wsVars
    /\ UNCHANGED convVars
    /\ UNCHANGED logVars

\* lines 169-225, one turn of the loop: _run_and_capture returns the output or
\* raises (Popen finds no binary, the prompt file cannot be opened); the
\* sentinel in the output makes main return 0; else the loop goes on after the
\* sleep, and main returns 1 after the last turn
loop_step(r, outcome) ==
    LET called == [r EXCEPT !.invocations = @ + 1,
                            !.sentinel = @ \/ outcome = "sentinel"]
    IN  IF outcome = "raised" THEN Over(called, "raised")
        ELSE IF outcome = "sentinel" THEN Over(called, "0")
        ELSE IF r.i < r.max_iterations THEN [called EXCEPT !.i = @ + 1]
        ELSE Over(called, "1")

run_and_capture(outcome) ==
    /\ main_call.pc = "agent"
    /\ main_call' = loop_step(main_call, outcome)
    /\ last_op' = "loop"
    /\ UNCHANGED <<prd_file, last_branch_file, progress_file, archive, today>>
    /\ UNCHANGED cliVars
    /\ UNCHANGED orchVars
    /\ UNCHANGED prdVars
    /\ UNCHANGED runnerVars
    /\ UNCHANGED putVars
    /\ UNCHANGED wsVars
    /\ UNCHANGED convVars
    /\ UNCHANGED logVars

\* the agent that main awaits (lines 176-209) appends its notes to progress.txt
agent_appends_progress ==
    /\ main_call.pc = "agent"
    /\ progress_file.exists
    /\ progress_file.notes < MaxNotes
    /\ progress_file' = [progress_file EXCEPT !.notes = @ + 1]
    /\ last_op' = "agent"
    /\ UNCHANGED <<prd_file, last_branch_file, archive, today, main_call>>
    /\ UNCHANGED cliVars
    /\ UNCHANGED orchVars
    /\ UNCHANGED prdVars
    /\ UNCHANGED runnerVars
    /\ UNCHANGED putVars
    /\ UNCHANGED wsVars
    /\ UNCHANGED convVars
    /\ UNCHANGED logVars

\* the agent that main awaits marks a story of prd.json as passing
agent_edits_prd_file ==
    /\ main_call.pc = "agent"
    /\ prd_file.exists
    /\ ~prd_file.passes
    /\ prd_file' = [prd_file EXCEPT !.passes = TRUE]
    /\ last_op' = "agent"
    /\ UNCHANGED <<last_branch_file, progress_file, archive, today, main_call>>
    /\ UNCHANGED cliVars
    /\ UNCHANGED orchVars
    /\ UNCHANGED prdVars
    /\ UNCHANGED runnerVars
    /\ UNCHANGED putVars
    /\ UNCHANGED wsVars
    /\ UNCHANGED convVars
    /\ UNCHANGED logVars

\* midnight
day_passes ==
    /\ today < MaxDays
    /\ today' = today + 1
    /\ last_op' = "midnight"
    /\ UNCHANGED <<prd_file, last_branch_file, progress_file, archive, main_call>>
    /\ UNCHANGED cliVars
    /\ UNCHANGED orchVars
    /\ UNCHANGED prdVars
    /\ UNCHANGED runnerVars
    /\ UNCHANGED putVars
    /\ UNCHANGED wsVars
    /\ UNCHANGED convVars
    /\ UNCHANGED logVars

\* the choices of --agent and --tool
AgentChoices == {"amp", "claude", "codex"}

\* the option strings of the parser
OptionStrings == {"--agent", "--tool"}

\* int(token) of type=int: the tokens it accepts, with their values
IntOf == [t \in {"0", "2"} |-> IF t = "0" THEN 0 ELSE 2]

\* parser.error: usage on standard error, SystemExit(2)
Exit2 == [exit |-> 2]

\* the Namespace before any argument: lines 35-38, <<>> is None
Namespace0 == [exit |-> 0, agent |-> <<>>, tool |-> <<>>, max_iterations |-> 10,
               positional |-> FALSE, warned |-> FALSE]

\* parser.parse_args, line 40, from argv[k] on: an option takes the next
\* string, which must be one of its choices, and the last occurrence wins; the
\* one positional takes the first other string, which int must accept; a
\* further one is an unrecognized argument
RECURSIVE parse_from(_, _, _)
parse_from(av, k, ns) ==
    IF k > Len(av) THEN ns
    ELSE IF av[k] \in OptionStrings
    THEN IF k = Len(av) \/ av[k + 1] \in OptionStrings \/ av[k + 1] \notin AgentChoices
         THEN Exit2
         ELSE parse_from(av, k + 2,
                         IF av[k] = "--agent" THEN [ns EXCEPT !.agent = <<av[k + 1]>>]
                         ELSE [ns EXCEPT !.tool = <<av[k + 1]>>])
    ELSE IF ns.positional \/ av[k] \notin DOMAIN IntOf
         THEN Exit2
         ELSE parse_from(av, k + 1, [ns EXCEPT !.max_iterations = IntOf[av[k]],
                                               !.positional = TRUE])

\* a parser that lets --tool override --agent
parse_args_tool_first(av) ==
    LET ns == parse_from(av, 1, Namespace0)
    IN  IF ns.exit = 2 THEN Exit2
        ELSE IF ns.tool # <<>> THEN [ns EXCEPT !.warned = TRUE, !.agent = ns.tool]
        ELSE IF ns.agent = <<>> THEN Exit2
        ELSE ns

\* _parse_args, lines 30-50
parse_args(av) ==
    LET ns == parse_from(av, 1, Namespace0)
    IN  IF ns.exit = 2 THEN Exit2
        ELSE IF ns.tool # <<>>
        THEN [ns EXCEPT !.warned = TRUE,
                        !.agent = IF ns.agent = <<>> THEN ns.tool ELSE ns.agent]
        ELSE IF ns.agent = <<>> THEN Exit2
        ELSE ns

\* nothing parsed yet
NoArgs == [exit |-> 1]

\* the script is started: main calls _parse_args(argv), line 139
parse_command_line ==
    /\ parsed_args = NoArgs
    /\ parsed_args' = parse_args(argv)
    /\ UNCHANGED <<argv, prd_file, last_branch_file, progress_file, archive, today,
                   last_op, main_call>>
    /\ UNCHANGED orchVars
    /\ UNCHANGED prdVars
    /\ UNCHANGED putVars
    /\ UNCHANGED wsVars
    /\ UNCHANGED convVars
    /\ UNCHANGED runnerVars
    /\ UNCHANGED logVars

\* a checkout before its first run, without prd.json
InitArchiveIdle ==
    /\ prd_file = Absent
    /\ last_branch_file = Absent
    /\ progress_file = Absent
    /\ archive = <<>>
    /\ today = 1
    /\ last_op = "none"
    /\ main_call = NoRun
    /\ argv = <<>>
    /\ parsed_args = NoArgs

\* ------------------------------------------------------------------ websocket manager
\* ConnectionManager (websocket_manager.py). A websocket is the number of its
\* accept; active_connections is the list in the order of the appends.
Conns == 1..MaxConns

\* the elements of a list
Elements(s) == {s[i] : i \in DOMAIN s}

\* list.remove(x) for a list without duplicates, where x may be absent
list_remove(s, x) == SelectSeq(s, LAMBDA y : y # x)

\* no broadcast was called. i is the position of the list iterator, attempts
\* counts the send_text calls per websocket, disconnected is the local list;
\* at_start, gone and cleaned are history: the websockets registered when the
\* call began, those a disconnect removed while the call was suspended, and
\* those the call removed itself
NoBroadcast ==
    [pc |-> "idle", i |-> 0, attempts |-> [c \in Conns |-> 0], disconnected |-> <<>>,
     at_start |-> {}, gone |-> {}, cleaned |-> {}]

\* every action of the manager leaves the rest as it is
WsFrame ==
    /\ UNCHANGED orchVars
    /\ UNCHANGED prdVars
    /\ UNCHANGED runnerVars
    /\ UNCHANGED putVars
    /\ UNCHANGED convVars
    /\ UNCHANGED archVars
    /\ UNCHANGED logVars

\* connect, lines 17-24, after accept() returned: a new websocket is appended
connect ==
    /\ n_connections < MaxConns
    /\ n_connections' = n_connections + 1
    /\ active_connections' = Append(active_connections, n_connections')
    /\ connection_metadata' = connection_metadata \cup {n_connections'}
    /\ UNCHANGED broadcast_call
    /\ WsFrame

\* disconnect, lines 26-31, called by the route of a websocket that closed
disconnect(websocket) ==
    /\ websocket \in connection_metadata
    /\ active_connections' = list_remove(active_connections, websocket)
    /\ connection_metadata' = connection_metadata \ {websocket}
    /\ broadcast_call' =
           IF broadcast_call.pc = "loop" /\ websocket \in Elements(active_connections)
           THEN [broadcast_call EXCEPT !.gone = @ \cup {websocket}]
           ELSE broadcast_call
    /\ UNCHANGED n_connections
    /\ WsFrame

\* broadcast, lines 37-39: the call begins, the iterator is at the list's head
broadcast_begin ==
    /\ broadcast_call.pc \in {"idle", "done"}
    /\ broadcast_call' = [NoBroadcast EXCEPT !.pc = "loop",
                                             !.at_start = Elements(active_connections)]
    /\ UNCHANGED <<active_connections, connection_metadata, n_connections>>
    /\ WsFrame

\* lines 40-45, one turn of the loop: the iterator of the list gives the
\* element at its position and moves on, send_text is awaited and returns or
\* raises; other tasks run while it is awaited
broadcast_send(raises) ==
    /\ broadcast_call.pc = "loop"
    /\ broadcast_call.i < Len(active_connections)
    /\ LET connection == active_connections[broadcast_call.i + 1]
       IN  broadcast_call' =
               [broadcast_call EXCEPT
                   !.i = @ + 1,
                   !.attempts[connection] = @ + 1,
                   !.disconnected = IF raises THEN Append(@, connection) ELSE @]
    /\ UNCHANGED <<active_connections, connection_metadata, n_connections>>
    /\ WsFrame

\* lines 40 and 47-49: the iterator is at or past the end of the list, and
\* disconnect is called for every element of disconnected
broadcast_end ==
    /\ broadcast_call.pc = "loop"
    /\ broadcast_call.i >= Len(active_connections)
    /\ LET failed == Elements(broadcast_call.disconnected)
       IN  /\ active_connections' =
                  SelectSeq(active_connections, LAMBDA c : c \notin failed)
           /\ connection_metadata' = connection_metadata \ failed
           /\ broadcast_call' =
                  [broadcast_call EXCEPT
                      !.pc = "done",
                      !.cleaned = failed \cap Elements(active_connections)]
    /\ UNCHANGED n_connections
    /\ WsFrame

InitWs ==
    /\ active_connections = <<>>
    /\ connection_metadata = {}
    /\ n_connections = 0
    /\ broadcast_call = NoBroadcast

\* ------------------------------------------------------------------ specifications
InitOrch ==
    /\ InitWs
    /\ subagent_conversations = [i \in 1..(MaxIterArg + 1) |-> NoConversation]
    /\ running = FALSE
    /\ current_iteration = 0
    /\ max_iterations = DEFAULT_MAX_ITERATIONS
    /\ anthropic_client \in BOOLEAN
    /\ use_api = anthropic_client
    /\ task = [t \in Tasks |-> IdleTask]
    /\ stop_requested = FALSE

Init ==
    /\ InitOrch
    /\ prd \in {PRD("missing", <<>>), PRD("malformed", <<>>)}
               \cup {PRD("ok", s) : s \in RankedStories}
    /\ prd0 = prd
    /\ prd_written = FALSE
    /\ next_story_ret = <<>>
    /\ prd_text = "found"
    /\ update_ret = NoUpdate
    /\ InitRunner
    /\ InitLogIdle
    /\ InitArchiveIdle

\* Two stretches read and write nothing the other tasks or the routes see: the
\* one after a dispatcher's return (lines 88-97) and the dropping of a finished
\* task. They commute with every other step, and are scheduled first.
LocalPcs == {"returned", "done"}
Quiet == \A t \in Tasks : task[t].pc \notin LocalPcs

\* the steps of the loops when nobody asks for a stop
NextNoStop ==
    \/ \E t \in Tasks : iteration_complete(t)
    \/ \E t \in Tasks : task_done(t)
    \/ Quiet /\ \E m \in 1..MaxIterArg, cli \in BOOLEAN : start_ralph(m, cli)
    \/ Quiet /\ start_ralph_rejected
    \/ Quiet /\ \E t \in Tasks : start_loop(t)
    \/ Quiet /\ \E t \in Tasks : get_next(t)
    \/ Quiet /\ \E t \in Tasks, e \in BOOLEAN : iter_start(t, e)
    \/ Quiet /\ \E t \in Tasks, raised \in BOOLEAN, sentinel \in BOOLEAN, rc \in 0..1 :
                   agent_returns(t, raised, sentinel, rc)
    \/ Quiet /\ \E t \in Tasks : reread(t)
    \/ Quiet /\ \E t \in Tasks : all_complete(t)
    \/ Quiet /\ \E t \in Tasks : bc_complete(t)
    \/ Quiet /\ \E t \in Tasks : sleep(t)
    \/ Quiet /\ \E t \in Tasks : exc_bcast(t)
    \/ Quiet /\ \E t \in Tasks, i \in 1..MaxStories : agent_writes_prd(t, i)

Next ==
    \/ NextNoStop
    \/ Quiet /\ stop_ralph
    \/ Quiet /\ stop_ralph_rejected
    \/ Quiet /\ \E t \in Tasks : stopped_bcast(t)

Spec == Init /\ [][Next]_vars

\* No stop is requested, and every started coroutine is resumed: the event loop
\* runs each ready task, and every awaited agent, read, broadcast and delay returns
SpecNoStop ==
    /\ Init
    /\ [][NextNoStop]_vars
    /\ \A t \in Tasks : WF_vars(NextNoStop /\ task'[t] # task[t])

\* the PRD service alone, over every story list
InitPRD ==
    /\ InitOrch
    /\ prd \in {PRD("missing", <<>>)} \cup {PRD("ok", s) : s \in AnyStories}
    /\ prd0 = prd
    /\ prd_written = FALSE
    /\ next_story_ret = <<>>
    /\ prd_text = "found"
    /\ update_ret = NoUpdate
    /\ InitRunner
    /\ InitLogIdle
    /\ InitArchiveIdle

NextPRD ==
    \/ get_next_story
    \/ \E i \in StoryIds, b \in BOOLEAN : update_user_story(i, b)

SpecPRD == InitPRD /\ [][NextPRD]_vars

\* the project routes and the runner's tasks; a created task takes its first step
\* before the event loop turns to a later request
NextRunner ==
    \/ \E p \in Projects, b \in BOOLEAN : run_ralph_process(p, b)
    \/ \E p \in Projects : (\A q \in Projects : runner_task[q] # "created") /\ project_start(p)
    \/ \E p \in Projects : (\A q \in Projects : runner_task[q] # "created") /\ project_stop(p)

SpecRunner == Init /\ [][NextRunner]_vars

\* the event logger alone: the orchestrator, the PRD service and the runner rest
InitRest ==
    /\ InitOrch
    /\ anthropic_client = FALSE
    /\ prd = PRD("missing", <<>>)
    /\ prd0 = prd
    /\ prd_written = FALSE
    /\ next_story_ret = <<>>
    /\ prd_text = "found"
    /\ update_ret = NoUpdate
    /\ InitRunner

\* the standalone runner alone, from a checkout before its first run
InitArchive ==
    /\ InitRest
    /\ InitLogIdle
    /\ prd_file \in {Absent} \cup {PrdFile(b) : b \in Branches \cup {<<>>}}
    /\ last_branch_file = Absent
    /\ progress_file = Absent
    /\ archive = <<>>
    /\ today = 1
    /\ last_op = "none"
    /\ main_call = NoRun
    /\ argv = <<>>
    /\ parsed_args = NoArgs

\* one turn of the loop per call is enough for the files: the agent's output
\* decides nothing about them
NextArchive ==
    \/ \E ingest \in {<<>>} \cup {<<PrdFile(b)>> : b \in Branches \cup {<<>>}} :
          main(ingest, 1)
    \/ run_and_capture("plain")
    \/ agent_appends_progress
    \/ day_passes
    \/ \E b \in Branches : last_branch_file.exists /\ b = last_branch_file.text
                             /\ archiver_archive_previous_run(b)

SpecArchive == InitArchive /\ [][NextArchive]_vars

\* the loop of the standalone runner, with every --prd, iteration count and
\* outcome of the agent
LoopBranches == {<<"a">>, <<"b">>}

\* documents --prd may name: one per branch, and one with "\r\n" line ends
LoopDocuments ==
    {PrdFile(b) : b \in LoopBranches} \cup {[PrdFile(<<"a">>) EXCEPT !.newline = "crlf"]}

NextLoop ==
    \/ \E ingest \in {<<>>, <<Absent>>} \cup {<<d>> : d \in LoopDocuments},
          m \in 0..MaxIterArg : main(ingest, m)
    \/ \E outcome \in {"sentinel", "plain", "raised"} : run_and_capture(outcome)
    \/ agent_appends_progress
    \/ agent_edits_prd_file

SpecLoop == InitArchive /\ [][NextLoop]_vars

\* command lines of up to MaxArgv strings
ArgStrings == {"--agent", "--tool", "amp", "claude", "2", "x"}

Argvs == UNION {[1..n -> ArgStrings] : n \in 0..MaxArgv}

\* the script started with any of them
InitArgs ==
    /\ InitRest
    /\ InitLogIdle
    /\ prd_file = Absent
    /\ last_branch_file = Absent
    /\ progress_file = Absent
    /\ archive = <<>>
    /\ today = 1
    /\ last_op = "none"
    /\ main_call = NoRun
    /\ argv \in Argvs
    /\ parsed_args = NoArgs

NextArgs == parse_command_line

SpecArgs == InitArgs /\ [][NextArgs]_vars

\* a record written by an earlier process
OldLine == json_dumps(Event(1, "system", 0, FALSE))

\* the file a new process finds
InitFiles ==
    {<<>>, <<OldLine>>, <<TruncatedLine>>, <<OldLine, TruncatedLine>>,
     <<BlankLine, OldLine>>}

InitLog ==
    /\ InitRest
    /\ InitArchiveIdle
    /\ project_files = FALSE
    /\ project_events = <<>>
    /\ events_file \in InitFiles
    /\ max_memory_events \in {1, 2, DEFAULT_MAX_MEMORY_EVENTS}
    /\ clock = 1
    /\ log_ret = NoRet
    /\ log_calls = <<>>
    /\ init_at = 0

NextLog ==
    \/ initialize_project
    \/ \E ty \in {"commit", "error"}, w \in BOOLEAN, tick \in 0..1 :
           log_event(ty, 1, FALSE, w, tick)
    \/ restart
    \/ cleanup_project
    \/ get_all_events_from_file

SpecLog == InitLog /\ [][NextLog]_vars

\* the calls that read the log, over the files and caches an earlier run left
QueryEvents ==
    {Event(ts, ty, sid, FALSE) :
        ts \in 1..MaxClock, ty \in {"commit", "error"}, sid \in LogStoryIds}
    \cup {Event(ts, "story_start", sid, FALSE) :
              ts \in 1..MaxClock, sid \in LogStoryIds \ {0}}
    \cup {Event(ts, "story_complete", sid, passed) :
              ts \in 1..MaxClock, sid \in LogStoryIds \ {0}, passed \in BOOLEAN}

QueryLines == {json_dumps(e) : e \in QueryEvents} \cup {TruncatedLine}

QueryFiles == UNION {[1..n -> QueryLines] : n \in 0..MaxLines}

\* the lines of a file that are whole records, parsed
RECURSIVE parsed_lines(_)
parsed_lines(lines) ==
    IF lines = <<>> THEN <<>>
    ELSE IF Head(lines) # BlankLine /\ ~json_loads_raises(Head(lines))
    THEN <<json_loads(Head(lines))>> \o parsed_lines(Tail(lines))
    ELSE parsed_lines(Tail(lines))

InitQuery ==
    /\ InitRest
    /\ InitArchiveIdle
    /\ events_file \in QueryFiles
    /\ project_files \in BOOLEAN
    /\ ~project_files => Len(events_file) <= 1
    /\ project_events = IF project_files THEN parsed_lines(events_file) ELSE <<>>
    /\ max_memory_events = DEFAULT_MAX_MEMORY_EVENTS
    /\ clock = MaxClock
    /\ log_ret = NoRet
    /\ log_calls = <<>>
    /\ init_at = 0

NextQuery ==
    \/ get_all_events_from_file
    \/ get_summary
    \/ \E limit \in {<<>>} \cup {<<n>> : n \in 0..MaxLimit},
          ty \in {"", "error"}, sid \in 0..1 :
           get_events(limit, ty, sid)

SpecQuery == InitQuery /\ [][NextQuery]_vars

\* the websocket manager alone: clients come and go while broadcasts run
InitBroadcast ==
    /\ InitOrch
    /\ prd = PRD("missing", <<>>)
    /\ prd0 = prd
    /\ prd_written = FALSE
    /\ next_story_ret = <<>>
    /\ prd_text = "found"
    /\ update_ret = NoUpdate
    /\ InitRunner
    /\ InitLogIdle
    /\ InitArchiveIdle

NextBroadcast ==
    \/ connect
    \/ \E websocket \in Conns : disconnect(websocket)
    \/ broadcast_begin
    \/ \E raises \in BOOLEAN : broadcast_send(raises)
    \/ broadcast_end

SpecBroadcast == InitBroadcast /\ [][NextBroadcast]_vars

\* ------------------------------------------------------------------ properties
InBody(t) == task[t].pc \in BodyPcs

\* C1 (orchestrator): no two start_loop bodies of the global orchestrator are in
\* progress together, whatever the interleaving of start and stop requests.
C1_OneLoopBody ==
    Cardinality({t \in Tasks : InBody(t)}) <= 1

\* the indices of the stories of d that are not passed
Incomplete(d) == {i \in DOMAIN d.userStories : ~d.userStories[i].passes}

\* C2: the answer of get_next_incomplete_story is none when there is no document or
\* no incomplete story (an empty list included); otherwise it is the incomplete
\* story with the smallest priority number, the first in list order among equals.
C2_NextIncomplete ==
    next_story_ret # <<>> =>
        LET d == next_story_ret[1]
            r == next_story_ret[2]
        IN  IF d.status # "ok" \/ Incomplete(d) = {}
            THEN r = <<>>
            ELSE \E k \in Incomplete(d) :
                    /\ r = <<d.userStories[k]>>
                    /\ \A j \in Incomplete(d) :
                          /\ d.userStories[k].priority <= d.userStories[j].priority
                          /\ d.userStories[j].priority = d.userStories[k].priority => k <= j

\* get_next_incomplete_story has answered for a list whose two incomplete stories
\* have the same priority, with the first of them
C2_Witness ==
    /\ next_story_ret # <<>>
    /\ LET d == next_story_ret[1]
       IN  /\ Len(d.userStories) = 2
           /\ Incomplete(d) = {1, 2}
           /\ d.userStories[1].priority = d.userStories[2].priority
           /\ d.userStories[1].id # d.userStories[2].id
           /\ next_story_ret[2] = <<d.userStories[1]>>

\* the run of task t is over and was a run (the start was not turned away)
Ended(t) == task[t].pc = "done" /\ ~task[t].rejected

\* C3: when stop_loop is called while a dispatch of a run is in flight, no further
\* dispatch is started by that run, and the run ends with its in-flight dispatch
\* completed (iteration-complete emitted), announcing that it was stopped by the
\* user, and neither as completed nor as exhausted.
C3_StopDuringDispatch ==
    \A t \in Tasks :
        task[t].stop_seen =>
            /\ task[t].pc # "iter_start"
            /\ Ended(t) =>
                  /\ task[t].n_iter_complete = task[t].n_dispatch
                  /\ task[t].stopped_msg
                  /\ task[t].n_complete = 0
                  /\ ~task[t].max_msg

\* C7: no run emits both the completion notification and the max-iterations
\* message.
C7_ExhaustedOrCompleted ==
    \A t \in Tasks : ~(task[t].n_complete >= 1 /\ task[t].max_msg)

\* C9: a dispatch whose subprocess exited with a non-zero code returns False, and
\* so does a dispatch that met a failure condition (no instruction document, no
\* binary, an exception); the dispatcher returns in each case.
C9_FailureConditions ==
    \A t \in Tasks :
        task[t].pc = "returned" =>
            /\ task[t].returncode # 0 => ~task[t].success
            /\ ~task[t].detected => ~task[t].success

\* the store has no incomplete story: no document, or none of its stories open
NoIncomplete(d) == d.status = "missing" \/ (d.status = "ok" /\ Incomplete(d) = {})

\* every story of a non-empty document is passed
AllPassed(d) == d.status = "ok" /\ d.userStories # <<>> /\ Incomplete(d) = {}

C6_Once ==
    \A t \in Tasks :
        /\ task[t].n_complete <= 1
        /\ task[t].n_complete = 1 => task[t].pc \in {"bc_complete", "done"}

C6_Trigger ==
    \A t \in Tasks :
        LET asked == \/ task[t].pc = "get_next" /\ NoIncomplete(prd)
                     \/ task[t].pc = "all_complete" /\ AllPassed(prd)
        IN  /\ (asked /\ task'[t] # task[t]) =>
                  /\ task'[t].pc = "bc_complete"
                  /\ task'[t].n_complete = 1
            /\ task[t].n_complete = 1 => task'[t].n_dispatch <= task[t].n_dispatch

\* C6: when the store answers an iteration's first question with no incomplete
\* story, or every story of a non-empty document is passed after a dispatch, the
\* run emits the completion notification, exactly once in the run, and starts no
\* dispatch after it, whatever the number of iterations left.
C6_CompletionOnce == []C6_Once /\ [][C6_Trigger]_vars

\* a run has emitted its completion notification after the dispatch of its first
\* iteration, with an iteration left
C6_Witness ==
    \E t \in Tasks :
        /\ task[t].pc = "bc_complete"
        /\ task[t].n_complete = 1
        /\ task[t].iteration = 1
        /\ task[t].n_dispatch = 1
        /\ task[t].range_end = 2
        /\ AllPassed(prd)

\* C8: a dispatch that reached its completion detection returns True when its
\* output holds the sentinel; without the sentinel it returns True exactly when
\* the re-read document has a story with the target id and passes = true. (No
\* step separates the re-read from the return, so prd is the re-read document.)
C8_CompletionDetection ==
    \A t \in Tasks :
        (task[t].pc = "returned" /\ task[t].detected) =>
            IF task[t].output_sentinel THEN task[t].success
            ELSE task[t].success <=>
                    \E i \in DOMAIN prd.userStories :
                        /\ prd.userStories[i].id = task[t].story
                        /\ prd.userStories[i].passes

\* a dispatch without the sentinel has returned True on the re-read document,
\* in which another story is still open
C8_Witness ==
    \E t \in Tasks :
        /\ task[t].pc = "returned"
        /\ task[t].detected
        /\ ~task[t].output_sentinel
        /\ task[t].success
        /\ Incomplete(prd) # {}

C4_ErrorTagged ==
    \A t \in Tasks :
        (task[t].pc = "all_complete" /\ ~task[t].success) => task[t].errs >= 1

C4_Continue ==
    \A t \in Tasks :
        LET failed == ~task[t].success /\ task'[t] # task[t]
        IN  /\ (task[t].pc = "all_complete" /\ failed /\ prd.status # "malformed"
                   /\ ~AllPassed(prd))
                    => task'[t].pc = "sleep"
            /\ (task[t].pc = "sleep" /\ failed /\ ~stop_requested
                   /\ task[t].iteration < task[t].range_end)
                    => /\ task'[t].pc = "get_next"
                       /\ task'[t].iteration = task[t].iteration + 1
            /\ (task[t].pc \in {"returned", "all_complete", "sleep"} /\ failed)
                    => prd' = prd
            /\ (task[t].pc = "get_next" /\ task'[t].pc = "iter_start" /\ ~task[t].success
                   /\ task[t].n_dispatch >= 1 /\ ~prd_written)
                    => task'[t].story = task[t].story

\* C4: after a dispatch that returned False the loop has sent an error tagged with
\* the iteration; unless every story is passed or the document is unreadable it
\* goes to its delay and, with an iteration left and no stop requested, to the
\* next iteration; none of these steps writes the document; and with the document
\* unchanged the next iteration selects the same story.
C4_FailureIsNotFatal == []C4_ErrorTagged /\ [][C4_Continue]_vars

\* the second iteration has selected the story whose dispatch failed in the first,
\* the document unchanged
C4_Witness ==
    \E t \in Tasks :
        /\ task[t].pc = "iter_start"
        /\ task[t].iteration = 2
        /\ task[t].n_dispatch = 1
        /\ ~task[t].success
        /\ task[t].story # 0
        /\ ~prd_written
        /\ ~stop_requested

\* no run dispatches more often than its range allows, and a run that is over has
\* left running = FALSE
C5_Bounded ==
    \A t \in Tasks :
        /\ task[t].n_dispatch <= task[t].range_end
        /\ Ended(t) => ~running

\* no stop was requested, the document is readable with a story open, and no
\* agent has written it
NeverCompleting ==
    /\ ~stop_requested
    /\ ~prd_written
    /\ prd0.status = "ok"
    /\ Incomplete(prd0) # {}

C5_Exhausts ==
    \A t \in Tasks :
        (Ended(t) /\ NeverCompleting) =>
            /\ task[t].n_dispatch = task[t].range_end
            /\ task[t].n_iter_complete = task[t].range_end
            /\ task[t].max_msg
            /\ ~task[t].exc_msg
            /\ ~task[t].stopped_msg
            /\ task[t].n_complete = 0
            /\ prd = prd0

\* a started loop comes to its end
C5_Terminates ==
    \A t \in Tasks : (task[t].pc = "scheduled") ~> (task[t].pc = "done")

C5_Errors ==
    \A t \in Tasks :
        /\ task[t].pc = "returned" =>
              task[t].errs = IF task[t].success \/ task[t].detected THEN 0 ELSE 1
        /\ task[t].pc = "all_complete" =>
              /\ task[t].success => task[t].errs = 0
              /\ ~task[t].success => task[t].errs \in {1, 2}

RunnerTaskOver(p) == runner_task[p] \in {"returned", "raised"}

\* C10: once a loop has ended on its own the target is not reported as running and
\* a start for it is not turned away: an orchestrator run that is over has left
\* running = FALSE, and the runner holds no project id whose task is over, so no
\* start of such a project is answered with 400.
C10_Finalized ==
    /\ \A t \in Tasks : Ended(t) => ~running
    /\ \A p \in Projects :
          RunnerTaskOver(p) =>
              /\ ~is_running(p)
              /\ responses[p] # <<>> => responses[p][Len(responses[p])] # 400

C11_Step ==
    (\E t \in Tasks : task[t].pc \in BodyPcs /\ task'[t].pc \in BodyPcs) =>
        current_iteration' \in {current_iteration, current_iteration + 1}

\* C11: while a loop is between its start and its exit, current_iteration never
\* decreases, grows by one at a time, and is at most max_iterations, whatever
\* start and stop requests arrive in between.
C11_IterationCounter ==
    /\ [](current_iteration <= max_iterations)
    /\ [][C11_Step]_vars

\* C12: when the runner's task finds no agent binary, the start of the project was
\* not answered as a success, no agent process is spawned, and the run is not
\* left in status running: the runner does not hold the project id and the
\* project's conversation and ralph_status do not say running.
C12_NoBinaryIsConfigError ==
    \A p \in Projects :
        binary_lookup[p] = "missing" =>
            /\ \A i \in DOMAIN responses[p] : responses[p][i] # 200
            /\ runner_task[p] # "spawned"
            /\ ~is_running(p)
            /\ project_conversations[p] # "running"
            /\ ralph_status[p] # "running"

\* a dispatch returned, with the agent's output or with a failure
DispatchReturned(t) == task[t].pc = "returned"

\* the Event Log holds a story_complete or an error event for the story
StoryEventLogged(sid) ==
    \E i \in DOMAIN log_calls :
        /\ ~log_calls[i].raised
        /\ log_calls[i].event.story_id = sid
        /\ log_calls[i].event.event_type \in {"story_complete", "error"}

\* C13: whenever a dispatch has returned and the loop has not yet gone on, the
\* agent's output, if there is one, is a message of the iteration's conversation,
\* and the Event Log holds a completion or failure event for the dispatched story
C13_DispatchRecorded ==
    \A t \in Tasks :
        DispatchReturned(t) =>
            /\ task[t].output => task[t].recorded
            /\ StoryEventLogged(task[t].story)

\* the answer of the last call, when it was a call of op
Answered(op) == log_ret.op = op

\* the events of the log_event calls that did not raise, in order
Logged(calls) ==
    LET kept == SelectSeq(calls, LAMBDA c : ~c.raised)
    IN  [i \in DOMAIN kept |-> kept[i].event]

\* the lines the file held before the first log_event call of the behaviour
LinesBefore ==
    LET written == Cardinality({i \in DOMAIN log_calls : log_calls[i].written})
    IN  SubSeq(events_file, 1, Len(events_file) - written)

AllWritten == \A i \in DOMAIN log_calls : ~log_calls[i].raised => log_calls[i].written

\* C14: when every log_event call on the initialized project wrote its line,
\* get_all_events_from_file on the initialized project (before or after the
\* logger was built anew and the project initialized again) answers the records
\* the file held before, followed by the logged events in the order of the calls
C14_RoundTrip ==
    (Answered("get_all_events_from_file") /\ project_files /\ AllWritten) =>
        log_ret.result = parsed_lines(LinesBefore) \o Logged(log_calls)

\* C15: get_all_events_from_file answers every line of the file that parses, in
\* file order: lines that do not parse are skipped, and the call never raises
C15_SkipsMalformed ==
    (Answered("get_all_events_from_file") /\ project_files) =>
        /\ ~log_ret.raised
        /\ log_ret.result = parsed_lines(events_file)

LastCall == log_calls[Len(log_calls)]

\* the last log_event call kept its event in the cache and returned it
KeptAndReturned ==
    /\ ~log_ret.raised
    /\ log_ret.result = <<LastCall.event>>
    /\ project_events # <<>>
    /\ project_events[Len(project_events)] = LastCall.event

\* C16 as stated: no log_event call raises to its caller; the event is kept in
\* the cache and returned, whether or not its line was written
C16_NeverRaises ==
    Answered("log_event") => KeptAndReturned

\* C16: on an initialized project log_event never raises: with a failed write as
\* with a successful one the event is kept in the cache and returned; for a
\* project id that is not initialized log_event raises and records nothing
C16_InitializedNeverRaises ==
    Answered("log_event") =>
        IF project_files THEN KeptAndReturned
        ELSE log_ret.raised /\ project_events = <<>> /\ ~LastCall.written

C16_Witness ==
    /\ Answered("log_event")
    /\ project_files
    /\ ~LastCall.written
    /\ KeptAndReturned

\* the events logged since the last initialize_project
SinceInit == Logged(SubSeq(log_calls, init_at + 1, Len(log_calls)))

\* the n most recent elements of s, all of s when it has no more
MostRecent(s, n) == IF Len(s) <= n THEN s ELSE SubSeq(s, Len(s) - n + 1, Len(s))

\* C17: initialize_project leaves an empty cache; the cache of an initialized
\* project never holds more than max_memory_events events, and holds the most
\* recent max_memory_events of the events logged since, in the order of the calls
C17_BoundedCache ==
    /\ Answered("initialize_project") => project_events = <<>>
    /\ project_files =>
           /\ Len(project_events) <= max_memory_events
           /\ project_events = MostRecent(SinceInit, max_memory_events)

C17_Witness ==
    /\ project_files
    /\ Len(SinceInit) > max_memory_events
    /\ Len(project_events) = max_memory_events
    /\ project_events[1] # SinceInit[1]

\* the cached events that pass the filters that were given
Matching(event_type, story_id) ==
    {i \in DOMAIN project_events :
        /\ event_type # "" => project_events[i].event_type = event_type
        /\ story_id # 0 => project_events[i].story_id = story_id}

\* how often e occurs in s
Occurrences(s, e) == Cardinality({i \in DOMAIN s : s[i] = e})

\* C18: get_events answers cached events that match the filters, the most recent
\* first, no event more often than the cache holds it; when a limit is passed the
\* answer has min(limit, number of matching events) events, else all the
\* matching events; for a project id it does not know the answer is empty
C18_GetEvents ==
    Answered("get_events") =>
        LET limit == log_ret.args[1]
            matching == Matching(log_ret.args[2], log_ret.args[3])
            result == log_ret.result
        IN  IF ~project_files THEN result = <<>>
            ELSE /\ \A i \in DOMAIN result :
                        /\ \E j \in matching : project_events[j] = result[i]
                        /\ Occurrences(result, result[i]) <=
                               Occurrences(project_events, result[i])
                 /\ \A i, j \in DOMAIN result :
                        i < j => result[i].timestamp >= result[j].timestamp
                 /\ limit # <<>> => Len(result) <= limit[1]
                 /\ Len(result) = IF limit # <<>> /\ limit[1] < Cardinality(matching)
                                  THEN limit[1]
                                  ELSE Cardinality(matching)

\* how many events of s satisfy P
Count(s, P(_)) == Cardinality({i \in DOMAIN s : P(s[i])})

\* the status a story_start or story_complete event gives its story
StatusOf(e) ==
    IF e.event_type = "story_start" THEN "in_progress"
    ELSE IF e.passed THEN "completed" ELSE "failed"

\* C19: get_summary on an initialized project counts the events of the file's
\* history: total_events is their number and the sum of the counts by type,
\* total_commits and total_errors count the commit and the error events, each
\* story with events has a rollup with the numbers of its events, commits and
\* errors and the status of its most recent story_start or story_complete
\* event, and last_event_time is the timestamp of the last event
C19_Summary ==
    (Answered("get_summary") /\ project_files) =>
        LET history == parsed_lines(events_file)
            sum == log_ret.result
            RECURSIVE Total(_)
            Total(types) ==
                IF types = {} THEN 0
                ELSE LET ty == CHOOSE x \in types : TRUE
                     IN  sum.event_types[ty] + Total(types \ {ty})
            Of(sid) == SelectSeq(history, LAMBDA e : e.story_id = sid)
            Marks(sid) == SelectSeq(Of(sid), LAMBDA e :
                              e.event_type \in {"story_start", "story_complete"})
        IN  /\ sum.total_events = Len(history)
            /\ sum.total_events = Total(EVENT_TYPES)
            /\ \A ty \in EVENT_TYPES :
                   sum.event_types[ty] = Count(history, LAMBDA e : e.event_type = ty)
            /\ sum.total_commits = Count(history, LAMBDA e : e.event_type = "commit")
            /\ sum.total_errors = Count(history, LAMBDA e : e.event_type = "error")
            /\ DOMAIN sum.stories = {sid \in LogStoryIds \ {0} : Of(sid) # <<>>}
            /\ \A sid \in DOMAIN sum.stories :
                   /\ sum.stories[sid].events = Len(Of(sid))
                   /\ sum.stories[sid].commits =
                          Count(Of(sid), LAMBDA e : e.event_type = "commit")
                   /\ sum.stories[sid].errors =
                          Count(Of(sid), LAMBDA e : e.event_type = "error")
                   /\ Marks(sid) # <<>> =>
                          sum.stories[sid].status = StatusOf(Marks(sid)[Len(Marks(sid))])
            /\ sum.last_event_time = IF history = <<>> THEN 0
                                     ELSE history[Len(history)].timestamp

\* the runner's start finds a marker and, in prd.json, a branch that differs
BranchChanged ==
    /\ last_branch_file.exists
    /\ prd_file'.exists
    /\ read_branch_name(prd_file') # <<>>
    /\ read_branch_name(prd_file') # last_branch_file.text

\* the runner's start finds the marker of the branch that prd.json declares
BranchSame ==
    /\ last_branch_file.exists
    /\ prd_file'.exists
    /\ read_branch_name(prd_file') = last_branch_file.text

C20_Start ==
    last_op' = "main" =>
        /\ BranchChanged =>
               /\ \E f \in DOMAIN archive' \ DOMAIN archive :
                      /\ DOMAIN archive' = DOMAIN archive \cup {f}
                      /\ archive'[f].prd = prd_file'
                      /\ archive'[f].progress = progress_file
               /\ \A f \in DOMAIN archive : archive'[f] = archive[f]
               /\ progress_file'.exists /\ progress_file'.notes = 0
               /\ last_branch_file' = BranchFile(read_branch_name(prd_file'))
        /\ BranchSame =>
               /\ archive' = archive
               /\ progress_file' = progress_file
               /\ last_branch_file' = last_branch_file

\* C20: a start of the standalone runner that finds a marker differing from the
\* branch prd.json declares makes exactly one new archive folder, holding copies
\* of prd.json and progress.txt, leaves the older folders as they are, resets
\* progress.txt to its header and sets the marker to the declared branch; a
\* start that finds the marker of the declared branch makes no folder and
\* leaves progress.txt and the marker as they are
C20_Archival == [][C20_Start]_vars

\* the step archives: the archiver was called, or the runner's start found a
\* changed branch
Archives == last_op' = "archiver" \/ (last_op' = "main" /\ BranchChanged)

C21_Step ==
    Archives =>
        /\ \E f \in DOMAIN archive' \ DOMAIN archive :
               DOMAIN archive' = DOMAIN archive \cup {f}
        /\ \A f \in DOMAIN archive : archive'[f] = archive[f]

\* C21: every archiving, by the archiver and by the standalone runner, makes a
\* folder that was not there and leaves every file of every folder that was
\* there as it is
C21_NeverOverwrites == [][C21_Step]_vars

\* C22: every archive folder is a direct child of the archive root: its name
\* is one path segment, whatever the branch name was
C22_NoSeparator == \A f \in DOMAIN archive : Len(f[2]) = 1

\* prd.json declares a branch after the start
Declares == prd_file'.exists /\ read_branch_name(prd_file') # <<>>

\* a start of the runner that finds no marker archives nothing and leaves the
\* notes of progress.txt; one that finds the marker of the declared branch
\* archives nothing and leaves progress.txt
C23_Skips ==
    /\ ~last_branch_file.exists =>
           /\ archive' = archive
           /\ progress_file.exists => progress_file' = progress_file
    /\ BranchSame =>
           /\ archive' = archive
           /\ progress_file' = progress_file

C23_StepAlways ==
    last_op' = "main" =>
        /\ C23_Skips
        /\ ~last_branch_file.exists =>
               /\ Declares
               /\ last_branch_file' = BranchFile(read_branch_name(prd_file'))

C23_Step ==
    last_op' = "main" =>
        /\ C23_Skips
        /\ ~last_branch_file.exists =>
               IF Declares
               THEN last_branch_file' = BranchFile(read_branch_name(prd_file'))
               ELSE ~last_branch_file'.exists

\* C23 as stated: a start without a marker archives nothing, resets no notes
\* and always writes the marker with the declared branch; a start that finds
\* the marker of the current branch archives nothing and leaves the notes
C23_MarkerAlwaysWritten == [][C23_StepAlways]_vars

\* C23: a start without a marker archives nothing, resets no notes, and writes
\* the marker with the branch prd.json declares when it declares one (no marker
\* is written when prd.json is missing or declares no branch); a start that
\* finds the marker of the current branch archives nothing and leaves the notes
C23_FirstRunSkips == [][C23_Step]_vars

\* a start found no marker and notes in progress.txt, kept them and wrote the marker
C23_Witness ==
    /\ last_op = "main"
    /\ ~main_call.found.exists
    /\ last_branch_file.exists
    /\ progress_file.exists /\ progress_file.notes >= 1
    /\ archive = <<>>

\* main went into its loop: --prd, when given, named a file
Looped == main_call.prd_src # <<Absent>>

\* C24: a call of main that went into its loop invokes the agent no further
\* once an output held the sentinel and then returns 0, and returns 0 in no
\* other case; a call that ended otherwise invoked the agent exactly
\* max_iterations times and returned 1
C24_ExitCode ==
    Looped =>
        /\ main_call.sentinel => main_call.pc = "over"
        /\ main_call.pc = "over" =>
               /\ main_call.returned = "0" <=> main_call.sentinel
               /\ ~main_call.sentinel =>
                      /\ main_call.returned = "1"
                      /\ main_call.invocations = main_call.max_iterations

\* what holds of every call that no launch of the agent broke off
C24_WhenLaunched ==
    main_call.returned # "raised" => C24_ExitCode

\* --prd named a file that is there
Ingested == main_call.prd_src # <<>> /\ main_call.prd_src[1].exists

\* the text of the document --prd named
SourceText == read_text(main_call.prd_src[1])

\* C25 as stated: after a call of main whose --prd named a file, prd.json
\* holds the text of that file
C25_EqualsSourceAtEnd ==
    (main_call.pc = "over" /\ Ingested) => prd_file = SourceText

C25_Step ==
    /\ (last_op' = "main" /\ Ingested') =>
           /\ prd_file' = SourceText'
           /\ main_call'.invocations = 0
           /\ SourceText'.branchName # <<>> =>
                  last_branch_file' = BranchFile(SourceText'.branchName)
           /\ (/\ last_branch_file.exists
               /\ SourceText'.branchName \notin {<<>>, last_branch_file.text}) =>
                  \E f \in DOMAIN archive' : archive'[f].prd = SourceText'
    /\ last_op' = "no_prd" =>
           /\ main_call'.returned = "1"
           /\ main_call'.invocations = 0
           /\ UNCHANGED <<prd_file, last_branch_file, archive, progress_file>>
    /\ (Ingested /\ prd_file = SourceText /\ last_op' \in {"loop"}) =>
           prd_file' = SourceText'

\* C25: a start whose --prd names a file writes the text of that file to
\* prd.json before the archival check, the marker update and the first call of
\* the agent, which all see the new document, and nothing but the agent changes
\* prd.json afterwards; a start whose --prd names a missing file returns 1,
\* calls no agent and leaves prd.json, the marker, the archive and the notes
C25_CopiesFirst == [][C25_Step]_vars

\* --prd named a document of another branch: it is in prd.json, it was
\* archived, and the marker names its branch
C25_Witness ==
    /\ last_op = "main"
    /\ Ingested
    /\ main_call.found.exists
    /\ prd_file = SourceText
    /\ archive # <<>>

\* C26: no failed delivery of a notification ends a project's loop: a task
\* that found the agent's binary goes on to spawn the agent, whatever became of
\* the notifications it sent first, and is over only when it is cancelled
C26_DeliveryNeverEndsLoop ==
    \A p \in Projects :
        (binary_lookup[p] = "found" /\ runner_task[p] # "created") =>
            runner_task[p] \in {"spawned", "cancelled"}

\* the route of project p answered in this step
AnsweredProject(p) == Len(responses'[p]) = Len(responses[p]) + 1

\* what it answered
Answer(p) == responses'[p][Len(responses'[p])]

\* the task of project p is at work: created, or waiting for its agent
LoopAtWork(p) == runner_task[p] \in {"created", "spawned"}

C27_Step ==
    \A p \in Projects :
        AnsweredProject(p) =>
            /\ Answer(p) < 500
            /\ (~LoopAtWork(p) /\ ~is_running(p)) => Answer(p) \in {200, 404}
            /\ LoopAtWork(p) => Answer(p) \in {200, 400}
            /\ (Answer(p) \in {400, 404}) =>
                   UNCHANGED <<running_processes, runner_task, project_conversations,
                               ralph_status, project_events, events_file>>

\* C27: the routes of a project answer with 200 or with a 4xx, never with a
\* 5xx, whether or not the project's loop is at work, and an answer of 400 or
\* 404 comes with no change of the runner or of the event log
C27_InvalidRejected == [][C27_Step]_vars

\* update_user_story was called in this step
Updated == update_ret'.n = update_ret.n + 1

\* the places of the records of an id
RecordsOf(stories, id) == {i \in DOMAIN stories : stories[i].id = id}

UniqueIds(stories) ==
    \A i, j \in DOMAIN stories : stories[i].id = stories[j].id => i = j

C28_Step ==
    Updated =>
        LET id == update_ret'.story_id
            before == IF prd.status = "ok" THEN prd.userStories ELSE <<>>
            after == IF prd'.status = "ok" THEN prd'.userStories ELSE <<>>
        IN  /\ (RecordsOf(before, id) # {} /\ update_ret'.passes) =>
                   /\ update_ret'.code = 200
                   /\ Len(after) = Len(before)
                   /\ RecordsOf(after, id) = RecordsOf(before, id)
                   /\ UniqueIds(before) => Cardinality(RecordsOf(after, id)) = 1
                   /\ \E k \in RecordsOf(after, id) :
                          /\ \A j \in RecordsOf(after, id) : k <= j
                          /\ after[k].passes
                          /\ \A j \in DOMAIN after :
                                 after[j] = IF j = k THEN [before[j] EXCEPT !.passes = TRUE]
                                            ELSE before[j]
                   /\ update_ret'.again => prd' = prd /\ prd_text' = prd_text
            /\ RecordsOf(before, id) = {} =>
                   /\ update_ret'.code = 404
                   /\ UNCHANGED <<prd, prd_text, prd_written>>

ValuesOf(opt) == {argv[k + 1] : k \in {j \in 1..(Len(argv) - 1) : argv[j] = opt}}

\* the string that follows the last occurrence of opt
LastValueOf(opt) ==
    argv[1 + CHOOSE k \in 1..(Len(argv) - 1) :
                 /\ argv[k] = opt
                 /\ \A j \in 1..(Len(argv) - 1) : argv[j] = opt => j <= k]

Given(opt) == \E k \in DOMAIN argv : argv[k] = opt

\* the numerals of the command line
Numerals == {k \in DOMAIN argv : argv[k] \in DOMAIN IntOf}

\* C29: the parsed command line has the value of --agent as its agent when
\* --agent is given, and else the value of --tool, and --tool comes with the
\* warning; a command line with neither ends in exit code 2; max_iterations is
\* 10 without a positional argument and else the integer given
C29_ParseArgs ==
    parsed_args # NoArgs =>
        /\ (~Given("--agent") /\ ~Given("--tool")) => parsed_args = Exit2
        /\ parsed_args.exit = 0 =>
               /\ Given("--agent") => parsed_args.agent = <<LastValueOf("--agent")>>
               /\ (~Given("--agent") /\ Given("--tool")) =>
                      parsed_args.agent = <<LastValueOf("--tool")>>
               /\ parsed_args.warned <=> Given("--tool")
               /\ parsed_args.agent[1] \in AgentChoices
               /\ IF Numerals = {} THEN parsed_args.max_iterations = 10
                  ELSE \A k \in Numerals : parsed_args.max_iterations = IntOf[argv[k]]

\* --agent and --tool differ, and a count is given: the agent is --agent's
C29_Witness ==
    /\ parsed_args # NoArgs /\ parsed_args.exit = 0
    /\ Given("--agent") /\ Given("--tool")
    /\ LastValueOf("--agent") # LastValueOf("--tool")
    /\ parsed_args.max_iterations = 2

\* the stop route of project p was answered in this step, for a project whose
\* task the runner holds
StoppedProject(p) == AnsweredProject(p) /\ is_running(p) /\ Answer(p) # 400

C30_Step ==
    \A p \in Projects :
        StoppedProject(p) =>
            /\ runner_task[p] = "spawned" => runner_task'[p] # "cancelled"
            /\ ~is_running(p)'
            /\ project_conversations'[p] = "stopped"
            /\ ralph_status'[p] = "stopped"

\* C30: a stop of a project's loop cancels no task that waits for its agent,
\* and after it the project is not reported as running and its status is
\* stopped
C30_CooperativeStop == [][C30_Step]_vars

\* between broadcast_iteration_start and broadcast_iteration_complete
InIteration == {"iter_start", "agent", "reread", "returned"}

\* one iteration-start for each iteration that found a story, sent before its
\* dispatch with the loop's iteration and the selected story, and one
\* iteration-complete with the same two after it
C31_OneStartOneComplete ==
    \A t \in Tasks :
        LET rec == task[t]
        IN  /\ rec.pc \in InIteration =>
                   /\ rec.n_iter_start = rec.n_iter_complete + 1
                   /\ rec.sent_start = <<rec.iteration, rec.story>>
            /\ rec.pc \notin InIteration => rec.n_iter_start = rec.n_iter_complete
            /\ rec.n_iter_start = rec.n_iter_complete => rec.sent_complete = rec.sent_start
            /\ rec.n_dispatch =
                   IF rec.pc = "iter_start" THEN rec.n_iter_start - 1 ELSE rec.n_iter_start

\* the story an agent is called for does not pass when the call begins
C31_DispatchedIncomplete ==
    \A t \in Tasks :
        (task[t].pc = "iter_start" /\ task'[t].pc = "agent") =>
            \E k \in DOMAIN prd.userStories :
                prd.userStories[k].id = task[t].story /\ ~prd.userStories[k].passes

C31_OneOutstanding == Cardinality({t \in Tasks : task[t].pc \in DispatchPcs}) <= 1

C31_Inv == C31_OneStartOneComplete /\ C31_OneOutstanding

\* C31: every iteration that finds an incomplete story sends one
\* iteration-start with its number and the selected story before the dispatch
\* and one iteration-complete with the same two after it; no agent is called for
\* a story that passes; at most one dispatch is outstanding at any time
C31_Iteration == []C31_Inv /\ [][C31_DispatchedIncomplete]_vars

\* the task of project p is over, and nobody cancelled it
RunOver(p) == runner_task[p] \in {"raised", "returned"}

\* C32: a run that found its binary is finalized when its task is over: the
\* agent was spawned and waited for, and the status of the run is completed or
\* error (or stopped, when a stop came after it)
C32_Finalized ==
    \A p \in Projects :
        (binary_lookup[p] = "found" /\ RunOver(p)) =>
            project_conversations[p] \in {"completed", "error", "stopped"}

\* C33: the messages of the controller's broadcasts have types of the sink's
\* set, and so has the first message of every task of the project runner
C33_TypedNotifications ==
    /\ ManagerTypes \subseteq WebSocketMessageTypes
    /\ \A p \in Projects :
           binary_lookup[p] # "none" =>
               project_ralph_type(first_msg_type(binary_lookup[p] = "found"))
                   \in WebSocketMessageTypes

\* the folders the step made or wrote
Written == {f \in DOMAIN archive' : f \notin DOMAIN archive \/ archive'[f] # archive[f]}

C34_Step ==
    (last_op' = "main" /\ BranchChanged) =>
        /\ Written # {}
        /\ \A f \in Written :
               /\ archive'[f].prd.exists
               /\ read_branch_name(archive'[f].prd) = last_branch_file.text

\* C34: the prd.json that a start of the runner puts into the archive on a
\* branch change is the document of the branch the marker names, with and
\* without --prd
C34_ArchivesPreviousDocument == [][C34_Step]_vars

\* the dispatch of task t has put its first message into the conversation
Dispatching(t) == task[t].pc \in {"agent", "reread", "returned"}

\* C35: while a run dispatches iteration i, the subagent conversation of i
\* holds the messages of that run and of no other, and has the id of the
\* story the run dispatched; a conversation that is there holds a message
C35_ConversationOfRun ==
    /\ \A t \in Tasks :
           Dispatching(t) =>
               /\ subagent_conversations[task[t].iteration].runs = {t}
               /\ subagent_conversations[task[t].iteration].story_id = task[t].story
    /\ \A i \in DOMAIN subagent_conversations :
           subagent_conversations[i].story_id # 0 =>
               subagent_conversations[i].runs # {}

\* a step of the loop or of a dispatcher: the orchestrator's own state moves
LoopStep == orchVars' # orchVars

\* C36: no step of start_loop or of a dispatch strategy writes the story
\* document or changes a passes flag: the document changes only in steps that
\* leave the loop where it is, taken while an agent is at work, and such a
\* step turns no flag from true to false
C36_Step ==
    /\ LoopStep => prd' = prd /\ prd_text' = prd_text
    /\ prd' # prd =>
           /\ \E t \in Tasks : task[t].pc = "agent"
           /\ DOMAIN prd'.userStories = DOMAIN prd.userStories
           /\ \A i \in DOMAIN prd.userStories :
                  prd.userStories[i].passes => prd'.userStories[i].passes

C36_LoopOnlyReads == [][C36_Step]_vars

\* a run has finished an iteration whose agent changed the document
C36_Witness ==
    /\ prd # prd0
    /\ \E t \in Tasks : task[t].n_iter_complete >= 1 /\ task[t].success

\* the log_event calls since the last initialize_project
CallsSinceInit == SubSeq(log_calls, init_at + 1, Len(log_calls))

\* every call since the last initialize_project wrote its line
WrittenSinceInit == \A i \in DOMAIN CallsSinceInit : CallsSinceInit[i].written

\* the records appended to the file since the last initialize_project, parsed
AppendedSinceInit ==
    LET k == Len(CallsSinceInit)
        lines == SubSeq(events_file, Len(events_file) - k + 1, Len(events_file))
    IN  [i \in DOMAIN lines |-> json_loads(lines[i])]

\* the cache holds the most recent capacity-many of the appended records
C37_CacheIsLogTail ==
    (project_files /\ WrittenSinceInit) =>
        /\ Len(events_file) >= Len(CallsSinceInit)
        /\ project_events = MostRecent(AppendedSinceInit, max_memory_events)

\* the file only grows at its end, and the cache only takes an event at its
\* end and drops events at its front, or is emptied as a whole
C37_NeverModified ==
    /\ Len(events_file') >= Len(events_file)
    /\ SubSeq(events_file', 1, Len(events_file)) = events_file
    /\ \/ project_events' = project_events
       \/ project_events' = <<>>
       \/ \E k \in 0..Len(project_events) :
              SubSeq(project_events', 1, Len(project_events') - 1)
                  = SubSeq(project_events, k + 1, Len(project_events))

RollupsWith(sum, status) ==
    Cardinality({k \in DOMAIN sum.stories : sum.stories[k].status = status})

\* C40: in every summary get_summary returns, stories_in_progress is the
\* number of per-story rollups with status in_progress and stories_completed
\* the number with status completed, also for stories that have events and no
\* story_start event
C40_StatusCounts ==
    Answered("get_summary") =>
        /\ log_ret.result.stories_in_progress = RollupsWith(log_ret.result, "in_progress")
        /\ log_ret.result.stories_completed = RollupsWith(log_ret.result, "completed")

\* task t passes the preamble of start_loop in this step
Started(t) == task[t].pc = "scheduled" /\ ~running /\ task'[t].pc # "scheduled"

\* task t chooses the strategy of a dispatch in this step
Chooses(t) == task[t].pc = "iter_start" /\ task'[t].pc # "iter_start"

\* C38: the strategy of a run is the one its own start arguments and the
\* configured credentials select, whatever arguments earlier runs were started
\* with: a run that starts has the API selected exactly when it was started
\* with use_cli=false and credentials are configured, the selection changes
\* only when a run starts, and every dispatch uses the strategy selected
C38_Step ==
    /\ \A t \in Tasks :
           Started(t) => (use_api' <=> (~task[t].arg_cli /\ anthropic_client))
    /\ use_api' # use_api => \E t \in Tasks : Started(t)
    /\ \A t \in Tasks :
           Chooses(t) =>
               task'[t].strategy = IF use_api /\ anthropic_client THEN "api" ELSE "cli"

C38_StrategyOfOwnArguments == [][C38_Step]_vars

\* the websockets that stayed registered while the broadcast sent
StayedRegistered == broadcast_call.at_start \ broadcast_call.gone

\* C39: when a broadcast is over, every connection that was registered from
\* its beginning to its end was sent the message exactly once, whatever
\* connections were added or removed while it was suspended on a send; the
\* connections whose send failed are registered no more, and the broadcast
\* removed no other connection
C39_EachOnce ==
    broadcast_call.pc = "done" =>
        /\ \A c \in StayedRegistered : broadcast_call.attempts[c] = 1
        /\ broadcast_call.cleaned \subseteq Elements(broadcast_call.disconnected)
        /\ Elements(broadcast_call.disconnected) \cap Elements(active_connections) = {}

====
